---- MODULE Spec2Model ----
(***************************************************************************)
(* Verification model of the virtualisation core of the repository.       *)
(*                                                                         *)
(* Part 1: capsules/src/virtual_adc.rs -- MuxAdc and AdcUser.             *)
(* Part 2: capsules/src/bus.rs -- the bus adapters SpiBus and I2CBus.     *)
(* Part 3: capsules/src/st7789h2.rs -- the display driver ST7789H2; the   *)
(*         driver LS016B8UY (capsules/src/ls016b8uy.rs) has the same      *)
(*         entry points, guards and replay loop.                          *)
(*                                                                         *)
(* Each part has its own specification; the variables of the other parts  *)
(* are parked in a fixed state while one part runs.                       *)
(*                                                                         *)
(* The kernel is single threaded and handlers run to completion, so every *)
(* entry point (AdcUser::sample, AdcUser::stop_sampling, the interrupt    *)
(* driven MuxAdc::sample_ready, and the board-init calls add_to_mux and   *)
(* set_client) is one atomic action that includes every nested call of    *)
(* MuxAdc::do_next_op and of the completion clients.                      *)
(***************************************************************************)
EXTENDS Integers, Sequences, FiniteSets, TLC

\* ------------------------------------------------------------------ bounds
NumUsers == 3
NumChannels == 3
MaxSample == 1

Users == 1..NumUsers
Samples == 0..MaxSample

\* OptionalCell::empty() for inflight (users are 1..NumUsers)
None == 0

VARIABLES
    devices,    \* MuxAdc.devices: the intrusive list, head first
    inflight,   \* MuxAdc.inflight: None or the AdcUser marked in flight
    operation,  \* AdcUser.operation: "None" or "SingleSample"
    channel,    \* AdcUser.channel: fixed by AdcUser::new
    client,     \* AdcUser.client: TRUE when set_client has registered one
    adcBusy,    \* the ADC hardware: a conversion is started and unanswered
    adcUser,    \* history: the user that conversion was started for
    regOrder,   \* history: the users in the order add_to_mux was called
    requested,  \* history: sample() called, neither cancelled nor completed
    last        \* history: what the last handler did (calls, callbacks, ...)

adcVars == <<devices, inflight, operation, channel, client, adcBusy,
             adcUser, regOrder, requested, last>>

\* ------------------------------------------ part 2: state of the adapters
VARIABLES
    busKind,            \* which adapter is wired: "spi" (SpiBus), "i2c" (I2CBus)
                        \* or "master" (I2CMasterBus, the set_addr protocol)
    bufLen,             \* buffer.len() of every static buffer
    held,               \* the buffers the caller of the adapter holds
    read_write_buffer,  \* SpiBus.read_write_buffer: None or a buffer
    busClient,          \* SpiBus.client / I2CBus.client is set
    len,                \* I2CBus.len
    status,             \* I2CMasterBus: BusStatus
    addr_buffer,        \* I2CMasterBus: the address buffer is in its storage
    xfer,               \* the transfer the underlying device is running
    outstanding,        \* history: buffers accepted (Ok) and not yet handed back
    busPanic,           \* panic!() was reached
    busLast             \* history: what the last handler did

busVars == <<busKind, bufLen, held, read_write_buffer, busClient, len,
             status, addr_buffer, xfer, outstanding, busPanic, busLast>>

\* the device is idle
NoXfer == [op |-> "none", wbuf |-> None, rbuf |-> None, items |-> 0]

NoCall == [kind |-> "new", buf |-> None, back |-> None, ret |-> "none",
           aw8 |-> TRUE, short |-> FALSE, slot |-> None, status |-> "Idle",
           calls |-> <<>>, delivered |-> <<>>, xfer |-> NoXfer,
           need |-> 0]

\* the adapters while another part of the model runs
BusParked ==
    /\ busKind = "spi"
    /\ bufLen = <<>>
    /\ held = {}
    /\ read_write_buffer = None
    /\ busClient = FALSE
    /\ len = 0
    /\ status = "Idle"
    /\ addr_buffer = TRUE
    /\ xfer = NoXfer
    /\ outstanding = {}
    /\ busPanic = FALSE
    /\ busLast = NoCall

\* ------------------------------------ part 3: state of the display driver
VARIABLES
    dispStatus,         \* ST7789H2.status: [tag, position, len, repeat]
    callback,           \* ST7789H2.callback is set (Driver::subscribe)
    screenClient,       \* ST7789H2.client is set (Screen::set_client)
    setup_client,       \* ST7789H2.setup_client is set
    setup_command,      \* ST7789H2.setup_command
    sequence_buffer,    \* ST7789H2.sequence_buffer: its elements
    position_in_sequence, \* ST7789H2.position_in_sequence
    sequence_len,       \* ST7789H2.sequence_len
    command,            \* ST7789H2.command: the name of the static Command
    dispBuffer,         \* ST7789H2.buffer: the buffer the TakeCell holds
    dispWriteBuffer,    \* ST7789H2.write_buffer: the buffer the TakeCell holds
    power_on,           \* ST7789H2.power_on
    memPending,         \* the transfer the memory bus (mem) is running
    alarm,              \* 0, or the milliseconds the alarm is armed for
    resetPin,           \* level of the reset pin
    appHolds,           \* the screen client holds its write buffer
    dispPanic,          \* panic!() or an index out of bounds was reached
    replay,             \* history: the elements sent since the sequence started
    requests,           \* history: how many calls have changed the driver
    dispLast            \* history: what the last handler did

dispVars == <<dispStatus, callback, screenClient, setup_client, setup_command,
              sequence_buffer, position_in_sequence, sequence_len, command,
              dispBuffer, dispWriteBuffer, power_on, memPending, alarm,
              resetPin, appHolds, dispPanic, replay, requests, dispLast>>

\* Status::Idle, Init, Reset1..Reset4, SendCommand(position, len, repeat),
\* SendCommandSlice(len), SendParametersSlice, Delay
St(tag, position, l, repeat) ==
    [tag |-> tag, position |-> position, len |-> l, repeat |-> repeat]

StIdle == St("Idle", 0, 0, 0)

\* the memory bus is idle
NoMem == [buf |-> "none", op |-> "none", n |-> 0]

\* no sequence is being replayed
NoReplay == [active |-> FALSE, sent |-> <<>>, opcodes |-> 0, writes |-> 0]

\* no sequence element has just been finished
NoElement == [set |-> FALSE, el |-> [tag |-> "Nop", cmd |-> "NOP",
                                    position |-> 0, len |-> 0, repeat |-> 0],
              opcodes |-> 0, writes |-> 0]

NoDispCall == [kind |-> "new", ret |-> "none", pre |-> StIdle,
               xfers |-> <<>>, alarms |-> <<>>, pins |-> <<>>,
               notes |-> <<>>, ssLen |-> 0, ssRet |-> "none",
               sent |-> <<>>, replayed |-> FALSE, done |-> FALSE,
               elem |-> NoElement, wait |-> -1, wasOn |-> FALSE,
               args |-> <<>>]

\* the display driver while another part of the model runs
DispParked ==
    /\ dispStatus = StIdle
    /\ callback = FALSE
    /\ screenClient = FALSE
    /\ setup_client = FALSE
    /\ setup_command = FALSE
    /\ sequence_buffer = <<>>
    /\ position_in_sequence = 0
    /\ sequence_len = 0
    /\ command = "NOP"
    /\ dispBuffer = "none"
    /\ dispWriteBuffer = "none"
    /\ power_on = FALSE
    /\ memPending = NoMem
    /\ alarm = 0
    /\ resetPin = "unset"
    /\ appHolds = FALSE
    /\ dispPanic = FALSE
    /\ replay = NoReplay
    /\ requests = 0
    /\ dispLast = NoDispCall

\* ---------------------------------------------------------------- part 4
\* The fill() computation of the ST7789H2 and LS016B8UY drivers taken on
\* its own: the driver, the shared buffer handed to new() and the colour
\* are the inputs, the first three elements of the sequence buffer and the
\* bytes of the shared buffer the result.
VARIABLES
    fillDriver,         \* "ST7789H2" or "LS016B8UY"
    fillBuffer,         \* the bytes of the shared buffer (buffer)
    fillColor,          \* the color argument of the last fill
    fillSequence        \* sequence[0..3] as fill left it, <<>> before

fillVars == <<fillDriver, fillBuffer, fillColor, fillSequence>>

\* the fill computation while another part of the model runs
FillParked ==
    /\ fillDriver = "none"
    /\ fillBuffer = <<>>
    /\ fillColor = 0
    /\ fillSequence = <<>>

\* ---------------------------------------------------------------- part 5
\* The PressureSensor capsule over a hil::sensors::PressureDriver.
VARIABLES
    busy,               \* PressureSensor.busy
    apps,               \* the grant: per app, callback (set or not) and
                        \* subscribed
    readPending,        \* the driver has accepted a read and owes a callback
    pressLast           \* history: what the last handler did

pressVars == <<busy, apps, readPending, pressLast>>

NoPressCall == [kind |-> "new", app |-> 0, num |-> 0, ret |-> "none",
                wasBusy |-> FALSE, wasPending |-> FALSE, entered |-> FALSE,
                scheduled |-> {}, value |-> 0]

\* the capsule while another part of the model runs
PressParked ==
    /\ busy = FALSE
    /\ apps = <<>>
    /\ readPending = FALSE
    /\ pressLast = NoPressCall

\* ---------------------------------------------------------------- part 6
\* The width-to-bytes mappings of the bus layer taken on their own: the
\* layer, the width and an item count are the inputs, the byte count of
\* the transfer the result.
VARIABLES
    widthLayer,         \* "hil", "bus" or "memory_async"
    widthName,          \* the BusWidth variant
    widthItems,         \* the number of data items (len)
    widthBytes          \* len * width in bytes as computed, -1 before

widthVars == <<widthLayer, widthName, widthItems, widthBytes>>

\* the mappings while another part of the model runs
WidthParked ==
    /\ widthLayer = "none"
    /\ widthName = "none"
    /\ widthItems = 0
    /\ widthBytes = -1

\* ---------------------------------------------------------------- part 7
\* capsules/src/bmp280.rs: the BMP280 driver
VARIABLES
    bmpState,           \* BMP280.state
    bmpBuffer,          \* BMP280.buffer holds the I2C buffer
    bmpXfer,            \* the I2C device runs a transfer and has the buffer
    read_temp,          \* BMP280.read_temp
    read_press,         \* BMP280.read_press
    temperature_client, \* BMP280.temperature_client is set
    pressure_client,    \* BMP280.pressure_client is set
    tempOwed,           \* history: a read_temperature of the client
                        \* returned SUCCESS and its callback has not been
                        \* made
    pressOwed,          \* history: the same for read_pressure
    bmpLast             \* history: what the last handler did

bmpVars == <<bmpState, bmpBuffer, bmpXfer, read_temp, read_press,
             temperature_client, pressure_client, tempOwed, pressOwed,
             bmpLast>>

NoBmpCall ==
    [kind |-> "new", ret |-> "none", pre |-> "Idle", error |-> "none",
     calls |-> <<>>, callbacks |-> <<>>, owedT |-> FALSE, owedP |-> FALSE]

\* the driver while another part of the model runs
BmpParked ==
    /\ bmpState = "Idle"
    /\ bmpBuffer = FALSE
    /\ bmpXfer = FALSE
    /\ read_temp = FALSE
    /\ read_press = FALSE
    /\ temperature_client = FALSE
    /\ pressure_client = FALSE
    /\ tempOwed = FALSE
    /\ pressOwed = FALSE
    /\ bmpLast = NoBmpCall

\* ---------------------------------------------------------------- part 8
\* capsules/src/esp_serial.rs: the write path of EspSerial
VARIABLES
    espApps,            \* the grant: App of every process
    tx_in_progress,     \* EspSerial.tx_in_progress: a process or None
    tx_buffer,          \* EspSerial.tx_buffer holds the kernel buffer
    uartTx,             \* the transmission the UART runs, or NoTx
    espWant,            \* history: min(len, slice.len()) of the last write
                        \* of a process that send_new accepted
    espSent,            \* history: the bytes handed to the UART for a
                        \* process since that write was accepted
    espOwed,            \* history: accepted writes of a process whose
                        \* completion was not signalled
    espLast             \* history: what the last handler did

espVars == <<espApps, tx_in_progress, tx_buffer, uartTx, espWant, espSent,
             espOwed, espLast>>

\* the UART is idle
NoTx == [app |-> None, data |-> <<>>]

NoEspCall ==
    [kind |-> "new", app |-> None, ret |-> "none", chunks |-> <<>>,
     callbacks |-> <<>>, owed |-> <<>>, busy |-> FALSE]

\* the driver while another part of the model runs
EspParked ==
    /\ espApps = <<>>
    /\ tx_in_progress = None
    /\ tx_buffer = FALSE
    /\ uartTx = NoTx
    /\ espWant = <<>>
    /\ espSent = <<>>
    /\ espOwed = <<>>
    /\ espLast = NoEspCall

\* the variables of the other parts, as seen from part 1
adcOthers == <<busVars, dispVars, fillVars, pressVars, widthVars,
    bmpVars, espVars>>

\* AdcUser::new(mux, channel): the channel is fixed at construction.  The
\* wiring is not validated: a board either gives every user a channel of
\* its own or binds two users to the same channel.
ChannelMaps ==
    {[u \in Users |-> u % NumChannels],
     [u \in Users |-> u % (NumChannels - 1)]}

Channel(u) == channel[u]

Registered == {devices[i] : i \in 1..Len(devices)}

\* position of a registered user in the list (1 = head)
ListIndex(u) == CHOOSE i \in 1..Len(devices) : devices[i] = u

\* position of a registered user in the order of registration (1 = first)
RegIndex(u) == CHOOSE i \in 1..Len(regOrder) : regOrder[i] = u

SetMin(S) == CHOOSE x \in S : \A y \in S : x <= y

\* ------------------------------------------------- handler-local state
\* The mutable cells a handler works on, plus what it did so far:
\*   calls     the adc.sample() calls made, each with the channel and
\*             whether the ADC was still busy with an earlier one
\*   delivered the completion clients invoked, with the value
\*   resub     the users whose client called sample() from its callback
Cur ==
    [inflight |-> inflight, operation |-> operation, adcBusy |-> adcBusy,
     adcUser |-> adcUser, requested |-> requested, calls |-> <<>>, delivered |-> <<>>,
     resub |-> {}]

\* self.adc.sample(&node.channel); the return code is ignored by the mux.
\* An idle ADC starts a conversion; a busy ADC stays busy (it rejects or
\* restarts, and answers with a single sample_ready either way).
AdcSample(m, node) ==
    [m EXCEPT !.calls = Append(@, [user |-> node, channel |-> Channel(node),
                                   overlap |-> m.adcBusy]),
              !.adcBusy = TRUE,
              !.adcUser = IF m.adcBusy THEN @ ELSE node]

\* match operation { Operation::SingleSample => { adc.sample(..); true } }
Started(op) == op = "SingleSample"

\* MuxAdc::do_next_op
RECURSIVE DoNextOp(_)
DoNextOp(m) ==
    IF m.inflight = None
    THEN \* devices.iter().find(|node| node.operation.is_some())
         LET pending == {i \in 1..Len(devices) :
                            m.operation[devices[i]] # "None"}
         IN  IF pending = {} THEN m
             ELSE LET node == devices[SetMin(pending)]
                  IN  \* OptionalCell::map_or copies the value: the
                      \* operation stays set on the node
                      IF Started(m.operation[node])
                      THEN [AdcSample(m, node) EXCEPT !.inflight = node]
                      ELSE DoNextOp(m)
    ELSE \* node.operation.take().map(|operation| { adc.sample; do_next_op })
         LET node == m.inflight
         IN  IF m.operation[node] = "None" THEN m
             ELSE DoNextOp(AdcSample([m EXCEPT !.operation[node] = "None"],
                                     node))

\* body of AdcUser::sample: set the operation, run the scheduling step
SampleBody(m, u) ==
    DoNextOp([m EXCEPT !.operation[u] = "SingleSample",
                       !.requested[u] = TRUE])

\* faulty variant of StopBody: stop_sampling also releases the mux
StopBodyFreesMux(m, u) ==
    DoNextOp([m EXCEPT !.operation[u] = "None", !.requested[u] = FALSE,
                       !.inflight = IF @ = u THEN None ELSE @])

\* body of AdcUser::stop_sampling: clear the operation, run the scheduler
StopBody(m, u) ==
    DoNextOp([m EXCEPT !.operation[u] = "None", !.requested[u] = FALSE])

\* node.client.map(|client| client.sample_ready(sample)): the completion
\* client gets the value; it may call sample() on its AdcUser again from
\* inside the callback (R is the set of users whose client does so).
ClientSampleReady(m, node, v, R) ==
    LET got == [m EXCEPT !.delivered = Append(@, [user |-> node,
                                                  value |-> v])]
    IN  IF node \in R
        THEN SampleBody([got EXCEPT !.resub = @ \cup {node}], node)
        ELSE got

\* faulty variant of ReadyLoop: the channel comparison is left out
RECURSIVE ReadyLoopAnyChannel(_, _, _, _)
ReadyLoopAnyChannel(m, i, v, R) ==
    IF i > Len(devices) THEN m
    ELSE LET node == devices[i]
             hit == m.inflight # None /\ m.operation[node] # "None"
             m1 == IF ~hit THEN m
                   ELSE LET c == [m EXCEPT !.operation[node] = "None",
                                           !.requested[node] = FALSE]
                        IN  IF client[node]
                            THEN ClientSampleReady(c, node, v, R)
                            ELSE c
         IN  ReadyLoopAnyChannel(m1, i + 1, v, R)

\* MuxAdc::sample_ready, the loop: for node in self.devices.iter() { .. }
RECURSIVE ReadyLoop(_, _, _, _)
ReadyLoop(m, i, v, R) ==
    IF i > Len(devices) THEN m
    ELSE LET node == devices[i]
             hit == /\ m.inflight # None
                    /\ Channel(node) = Channel(m.inflight)
                    /\ m.operation[node] # "None"
             m1 == IF ~hit THEN m
                   ELSE LET c == [m EXCEPT !.operation[node] = "None",
                                           !.requested[node] = FALSE]
                        IN  IF client[node]
                            THEN ClientSampleReady(c, node, v, R)
                            ELSE c
         IN  ReadyLoop(m1, i + 1, v, R)

\* write the handler's result back and record what it did (value: the
\* sample handed to the completion clients, 0 when none was invoked)
Commit(m, kind, u, ret, v) ==
    /\ inflight' = m.inflight
    /\ operation' = m.operation
    /\ adcBusy' = m.adcBusy
    /\ adcUser' = m.adcUser
    /\ requested' = m.requested
    /\ last' = [kind |-> kind, user |-> u, ret |-> ret,
                value |-> IF m.delivered = <<>> THEN 0 ELSE v,
                pre |-> inflight, calls |-> m.calls,
                delivered |-> m.delivered, resub |-> m.resub]

NoEvent(kind, u) ==
    [kind |-> kind, user |-> u, ret |-> "none", value |-> 0,
     pre |-> inflight, calls |-> <<>>, delivered |-> <<>>, resub |-> {}]

\* ----------------------------------------------------------------- Init
\* MuxAdc::new and AdcUser::new
AdcInit ==
    /\ BusParked
    /\ DispParked
    /\ FillParked
    /\ PressParked
    /\ WidthParked
    /\ BmpParked
    /\ EspParked
    /\ devices = <<>>
    /\ inflight = None
    /\ operation = [u \in Users |-> "None"]
    /\ channel \in ChannelMaps
    /\ client = [u \in Users |-> FALSE]
    /\ adcBusy = FALSE
    /\ adcUser = None
    /\ regOrder = <<>>
    /\ requested = [u \in Users |-> FALSE]
    /\ last = [kind |-> "new", user |-> None, ret |-> "none", value |-> 0,
               pre |-> None, calls |-> <<>>, delivered |-> <<>>,
               resub |-> {}]

\* -------------------------------------------------------------- actions
\* faulty variant of AddToMux: push_tail in place of push_head
AddToMuxTail(u) ==
    /\ u = Len(devices) + 1
    /\ devices' = Append(devices, u)
    /\ regOrder' = Append(regOrder, u)
    /\ last' = NoEvent("add_to_mux", u)
    /\ UNCHANGED <<inflight, operation, channel, client, adcBusy, adcUser,
                   requested>>

\* AdcUser::add_to_mux: self.mux.devices.push_head(self), once per user.
\* The users are numbered in the order in which the board registers them.
AddToMux(u) ==
    /\ u = Len(devices) + 1
    /\ devices' = <<u>> \o devices
    /\ regOrder' = Append(regOrder, u)
    /\ last' = NoEvent("add_to_mux", u)
    /\ UNCHANGED <<inflight, operation, channel, client, adcBusy, adcUser,
                   requested>>

\* AdcUser::set_client
SetClient(u) ==
    /\ ~client[u]
    /\ client' = [client EXCEPT ![u] = TRUE]
    /\ last' = NoEvent("set_client", u)
    /\ UNCHANGED <<devices, inflight, operation, channel, adcBusy, adcUser,
                   regOrder, requested>>

\* faulty variant of Sample: a second request is refused with EBUSY
SampleRejectsPending(u) ==
    /\ u \in Registered
    /\ IF operation[u] # "None"
       THEN Commit(Cur, "sample", u, "EBUSY", 0)
       ELSE Commit(SampleBody(Cur, u), "sample", u, "SUCCESS", 0)
    /\ UNCHANGED <<devices, channel, client, regOrder>>

\* AdcUser::sample, called by the owner of a registered user
Sample(u) ==
    /\ u \in Registered
    /\ Commit(SampleBody(Cur, u), "sample", u, "SUCCESS", 0)
    /\ UNCHANGED <<devices, channel, client, regOrder>>

\* AdcUser::stop_sampling, called by the owner of a registered user
StopSampling(u) ==
    /\ u \in Registered
    /\ Commit(StopBody(Cur, u), "stop_sampling", u, "SUCCESS", 0)
    /\ UNCHANGED <<devices, channel, client, regOrder>>

\* the users whose completion client can be invoked by this sample_ready
Candidates ==
    {u \in Registered : /\ inflight # None
                        /\ Channel(u) = Channel(inflight)
                        /\ operation[u] # "None"
                        /\ client[u]}

\* MuxAdc::sample_ready: the ADC answers the conversion it was running.
\* The hardware is idle again when it raises the callback.
SampleReady(v) ==
    /\ adcBusy
    /\ \E R \in SUBSET Candidates :
         LET m0 == [Cur EXCEPT !.adcBusy = FALSE, !.adcUser = None]
             m1 == ReadyLoop(m0, 1, v, R)
             m2 == DoNextOp([m1 EXCEPT !.inflight = None])
         IN  /\ m2.resub = R
             /\ Commit(m2, "sample_ready", None, "none", v)
    /\ UNCHANGED <<devices, channel, client, regOrder>>

AdcNext ==
    \/ (\E u \in Users : AddToMux(u)) /\ UNCHANGED adcOthers
    \/ (\E u \in Users : SetClient(u)) /\ UNCHANGED adcOthers
    \/ (\E u \in Users : Sample(u)) /\ UNCHANGED adcOthers
    \/ (\E u \in Users : StopSampling(u)) /\ UNCHANGED adcOthers
    \/ (\E v \in Samples : SampleReady(v)) /\ UNCHANGED adcOthers

AdcSpec == AdcInit /\ [][AdcNext]_<<adcVars, adcOthers>>

\* ------------------------------------------------------------ properties
Pending == {u \in Registered : operation[u] # "None"}

\* the wiring precondition: no two registered users share a channel
UniqueChannels ==
    \A u, w \in Registered : Channel(u) = Channel(w) => u = w

\* C1: the mux never calls adc.sample() while an adc.sample() it issued
\* earlier has not been answered by sample_ready (no call finds the ADC busy).
C1_NoOverlappingSample ==
    \A i \in 1..Len(last.calls) : ~last.calls[i].overlap

\* C2: inflight is Some exactly when a sample has been dispatched to the
\* ADC and its sample_ready has not arrived yet.
C2_InflightIffBusy == (inflight # None) <=> adcBusy

\* C3: the sample_ready answering a dispatch made for an AdcUser delivers
\* its value exactly once to that user's client (the request not having been
\* cancelled), whatever sample() calls were made while it was in flight.
C3_CompletionDelivered ==
    [][(/\ last'.kind = "sample_ready"
        /\ inflight # None
        /\ client[inflight]
        /\ requested[inflight])
       => /\ Cardinality({i \in 1..Len(last'.delivered) :
                             last'.delivered[i].user = inflight}) = 1
          /\ \A i \in 1..Len(last'.delivered) :
                last'.delivered[i].value = last'.value]_adcVars

C5_HeadResubmitStarves ==
    (/\ UniqueChannels
     /\ last.kind = "sample_ready"
     /\ last.pre # None
     /\ last.pre \in last.resub)
        => ~(inflight # None /\ ListIndex(inflight) > ListIndex(last.pre))

\* C6: on sample_ready, a registered user whose channel differs from the
\* in-flight client's channel gets no callback and keeps its pending
\* operation.
C6_OtherChannelsUntouched ==
    [][(last'.kind = "sample_ready" /\ inflight # None)
       => \A u \in Registered :
             Channel(u) # Channel(inflight)
                => /\ \A i \in 1..Len(last'.delivered) :
                         last'.delivered[i].user # u
                   /\ operation'[u] = operation[u]]_adcVars

\* C6 witness: a completion was delivered while a user on another channel
\* was pending, and that user is still pending.
C6_Witness ==
    /\ last.kind = "sample_ready"
    /\ last.pre # None
    /\ Len(last.delivered) > 0
    /\ \E u \in Pending : /\ Channel(u) # Channel(last.pre)
                          /\ u # inflight

C8_NoRequestLeftBehind ==
    (inflight = None /\ ~adcBusy)
        => \A u \in Registered : client[u] => ~requested[u]

\* C9: while a sample handed to the ADC is unanswered, no operation of
\* another client is dispatched, whatever sample() and stop_sampling()
\* calls follow: every call the mux makes to the ADC is for the client whose
\* sample is unanswered.
C9_OccupiedUntilAnswered ==
    [][(adcBusy /\ last'.kind \in {"sample", "stop_sampling"})
       => \A i \in 1..Len(last'.calls) :
             last'.calls[i].user = adcUser]_adcVars

\* C10: sample() and stop_sampling() return SUCCESS in every state of the
\* client and of the mux.
C10_AlwaysSuccess ==
    last.kind \in {"sample", "stop_sampling"} => last.ret = "SUCCESS"

\* C10 witness: sample() was called on a user whose operation was already
\* dispatched and in flight, and returned SUCCESS.
C10_Witness ==
    /\ last.kind = "sample"
    /\ last.pre = last.user
    /\ last.ret = "SUCCESS"

\* ======================================================================
\* Part 2: capsules/src/bus.rs -- SpiBus and I2CBus
\* ======================================================================

\* ------------------------------------------------------------------ bounds
NumBuffers == 3
MaxBufLen == 2
MaxCount == 1

\* the largest item count of the requests at the limit of a u8 length
LargeCount == 256

Buffers == 1..NumBuffers
Counts == 0..MaxCount

\* kernel::hil::bus::BusWidth
BusWidths ==
    {"Bits8", "Bits16LE", "Bits16BE", "Bits32LE", "Bits32BE", "Bits64LE",
     "Bits64BE"}

\* bus_width_in_bytes
bus_width_in_bytes(bus_width) ==
    CASE bus_width = "Bits8" -> 1
      [] bus_width \in {"Bits16BE", "Bits16LE"} -> 2
      [] bus_width \in {"Bits32BE", "Bits32LE"} -> 3
      [] bus_width \in {"Bits64BE", "Bits64LE"} -> 4

\* the widths a caller passes as data width: one of every size in bytes
DataWidths == {"Bits8", "Bits16LE", "Bits32BE", "Bits64LE"}

\* address width and data width of a write_addr / read_addr: a Bits8 address
\* with every data width, and every other address width
AddrCases ==
    {c \in BusWidths \X DataWidths : c[1] = "Bits8" \/ c[2] = "Bits8"}

\* the static buffers of a board: of growing lengths 0, 1, 2, ..., or all of
\* the same length
BufLenMaps ==
    {[b \in Buffers |-> (b - 1) % (MaxBufLen + 1)],
     [b \in Buffers |-> MaxBufLen]}

\* `as u8`
AsU8(x) == x % 256

\* `len & bytes`
RECURSIVE BitAnd(_, _)
BitAnd(x, y) ==
    IF x = 0 \/ y = 0 THEN 0
    ELSE (x % 2) * (y % 2) + 2 * BitAnd(x \div 2, y \div 2)

\* ------------------------------------------------- handler-local state
\* The caller moves `buffer` into the call; it gets it back in an Err value.
BusCur(buffer) ==
    [held |-> held \ {buffer}, rwb |-> read_write_buffer, len |-> len,
     status |-> status, addr_buffer |-> addr_buffer, xfer |-> xfer, outstanding |-> outstanding, panic |-> FALSE,
     ret |-> "none", back |-> None, calls |-> <<>>, delivered |-> <<>>]

\* Err((code, buffer))
BusErr(m, code, buffer) ==
    [m EXCEPT !.ret = code, !.back = buffer, !.held = @ \cup {buffer}]

\* Ok(())
BusOk(m, buffer) ==
    [m EXCEPT !.ret = "Ok", !.outstanding = @ \cup {buffer}]

\* panic!()
BusPanics(m) == [m EXCEPT !.ret = "panic", !.panic = TRUE]

\* ------------------------------------------- the underlying device
\* SpiMasterDevice / I2CDevice: a transfer is accepted when the device is
\* idle and the request is valid (ok); otherwise the call fails and the
\* device gives the buffers back in the error value.
DevAccepts(m, ok) == ok /\ m.xfer = NoXfer

DevCode(m) == IF m.xfer = NoXfer THEN "FAIL" ELSE "EBUSY"

\* n is the length handed to the device; items is history: the item count
\* of the Bus operation behind the call
DevCall(m, op, wbuf, rbuf, n, items, ok) ==
    LET c == [m EXCEPT !.calls = Append(@, [op |-> op, wbuf |-> wbuf,
                                             rbuf |-> rbuf, n |-> n])]
    IN  IF DevAccepts(m, ok)
        THEN [c EXCEPT !.xfer = [op |-> op, wbuf |-> wbuf, rbuf |-> rbuf,
                                 items |-> items]]
        ELSE c

\* ------------------------------------------------------------- SpiBus
\* SpiBus::write
SpiWrite(m, data_width, buffer, n, ok) ==
    LET bytes == bus_width_in_bytes(data_width)
    IN  IF bufLen[buffer] >= n * bytes
        THEN LET c == DevCall(m, "read_write_bytes", buffer, None, n, n, ok)
             IN  IF DevAccepts(m, ok) THEN BusOk(c, buffer)
                 ELSE BusErr(c, DevCode(m), buffer)
        ELSE BusErr(m, "ENOMEM", buffer)

\* faulty variant of SpiReadWith: the length of the caller's buffer is not
\* checked
SpiReadNoLengthCheck(t, write_buffer, data_width, buffer, n, ok) ==
    LET bytes == bus_width_in_bytes(data_width)
    IN  IF bufLen[write_buffer] >= n * bytes /\ bufLen[write_buffer] > 0
        THEN LET c == DevCall(t, "read_write_bytes", write_buffer, buffer,
                              n, n, ok)
             IN  IF DevAccepts(t, ok) THEN BusOk(c, buffer)
                 ELSE BusErr([c EXCEPT !.rwb = write_buffer], DevCode(t),
                             buffer)
        ELSE BusErr(t, "ENOMEM", buffer)

\* SpiBus::read, the closure that runs with the filler taken from the slot
SpiReadWith(t, write_buffer, data_width, buffer, n, ok) ==
    LET bytes == bus_width_in_bytes(data_width)
    IN  IF /\ bufLen[write_buffer] >= n * bytes
           /\ bufLen[write_buffer] > 0
           /\ bufLen[buffer] > n * bytes
        THEN LET c == DevCall(t, "read_write_bytes", write_buffer, buffer,
                              n, n, ok)
             IN  IF DevAccepts(t, ok) THEN BusOk(c, buffer)
                 ELSE BusErr([c EXCEPT !.rwb = write_buffer], DevCode(t),
                             buffer)
        ELSE BusErr(t, "ENOMEM", buffer)

\* faulty variant of SpiRead: an empty slot is reported as an error code
SpiReadErrorOnEmptySlot(m, data_width, buffer, n, ok) ==
    IF m.rwb = None THEN BusErr(m, "EBUSY", buffer)
    ELSE SpiReadWith([m EXCEPT !.rwb = None], m.rwb, data_width, buffer, n,
                     ok)

\* SpiBus::read
SpiRead(m, data_width, buffer, n, ok) ==
    IF m.rwb = None THEN BusPanics(m)
    ELSE SpiReadWith([m EXCEPT !.rwb = None], m.rwb, data_width, buffer, n,
                     ok)

\* SpiBus::write_addr
SpiWriteAddr(m, addr_width, data_width, buffer, n, ok) ==
    IF addr_width = "Bits8"
    THEN IF bufLen[buffer] > n
         THEN SpiWrite(m, data_width, buffer, n, ok)
         ELSE BusErr(m, "ENOMEM", buffer)
    ELSE BusErr(m, "ENOSUPPORT", buffer)

\* faulty variant of SpiReadAddr: the filler is taken before the address
\* width is looked at
SpiReadAddrTakesFirst(m, addr_width, data_width, buffer, n, ok) ==
    BusErr([m EXCEPT !.rwb = None],
           IF addr_width = "Bits8" THEN "ENOMEM" ELSE "ENOSUPPORT", buffer)

\* SpiBus::read_addr
SpiReadAddr(m, addr_width, data_width, buffer, n, ok) ==
    IF addr_width = "Bits8"
    THEN LET write_buffer == m.rwb
             t == [m EXCEPT !.rwb = None]
         IN  IF write_buffer = None THEN BusPanics(m)
             ELSE IF /\ bufLen[write_buffer] > n
                     /\ bufLen[write_buffer] > 0
                     /\ bufLen[buffer] > n
             THEN SpiRead([t EXCEPT !.rwb = write_buffer], data_width,
                          buffer, n, ok)
             ELSE BusErr(t, "ENOMEM", buffer)
    ELSE BusErr(m, "ENOSUPPORT", buffer)

\* ------------------------------------------------------------- I2CBus
\* I2CBus::write
I2cWrite(m, data_width, buffer, n, ok) ==
    LET bytes == bus_width_in_bytes(data_width)
    IN  IF n * bytes < 255 /\ bufLen[buffer] >= n * bytes
        THEN LET s == [m EXCEPT !.len = n]
                 c == DevCall(s, "write", buffer, None, AsU8(n * bytes), n,
                              ok)
             IN  IF DevAccepts(s, ok) THEN BusOk(c, buffer)
                 ELSE BusErr(c, DevCode(s), buffer)
        ELSE BusErr(m, "ENOMEM", buffer)

\* I2CBus::read
I2cRead(m, data_width, buffer, n, ok) ==
    LET bytes == bus_width_in_bytes(data_width)
    IN  IF BitAnd(n, bytes) < 255 /\ bufLen[buffer] >= n * bytes
        THEN LET s == [m EXCEPT !.len = n]
                 c == DevCall(s, "read", buffer, None, AsU8(n * bytes), n,
                              ok)
             IN  IF DevAccepts(s, ok) THEN BusOk(c, buffer)
                 ELSE BusErr(c, DevCode(s), buffer)
        ELSE BusErr(m, "ENOMEM", buffer)

\* I2CBus::write_addr
I2cWriteAddr(m, addr_width, data_width, buffer, n, ok) ==
    IF addr_width = "Bits8"
    THEN IF bufLen[buffer] > n
         THEN I2cWrite(m, data_width, buffer, n, ok)
         ELSE BusErr(m, "ENOMEM", buffer)
    ELSE BusErr(m, "ENOSUPPORT", buffer)

\* I2CBus::read_addr
I2cReadAddr(m, addr_width, data_width, buffer, n, ok) ==
    IF addr_width = "Bits8"
    THEN IF n < 255 /\ bufLen[buffer] > n
         THEN LET c == DevCall(m, "write_read", buffer, None, AsU8(n), n, ok)
              IN  IF DevAccepts(m, ok) THEN BusOk(c, buffer)
                  ELSE BusErr(c, DevCode(m), buffer)
         ELSE BusErr(m, "ENOMEM", buffer)
    ELSE BusErr(m, "ENOSUPPORT", buffer)

\* ------------------------------------------------------- completions
\* self.client.map(move |client| client.command_complete(buffer, len)):
\* the client owns the buffer again; without a client the buffer is gone.
BusClientComplete(m, buffer, l) ==
    IF busClient
    THEN [m EXCEPT !.held = @ \cup {buffer},
                   !.outstanding = @ \ {buffer},
                   !.delivered = Append(@, [buf |-> buffer, len |-> l])]
    ELSE [m EXCEPT !.outstanding = @ \ {buffer}]

\* faulty variant of SpiDone: the filler is handed to the client
SpiDoneNoSwap(m, write_buffer, read_buffer, l) ==
    BusClientComplete(m, write_buffer, l)

\* SpiBus::read_write_done
SpiDone(m, write_buffer, read_buffer, l) ==
    IF read_buffer # None
    THEN BusClientComplete([m EXCEPT !.rwb = write_buffer], read_buffer, l)
    ELSE BusClientComplete(m, write_buffer, l)

\* I2CBus::command_complete
I2cDone(m, buffer, error) ==
    BusClientComplete(m, buffer,
                      IF error = "CommandComplete" THEN m.len ELSE 0)

\* the outcomes of a device call that matter: a busy device always refuses
DevOutcomes == IF xfer = NoXfer THEN BOOLEAN ELSE {FALSE}

\* kernel::hil::i2c::Error
I2cErrors == {"CommandComplete", "AddressNak", "DataNak"}

\* --------------------------------------------------------------- actions
BusCommit(m, kind, buffer, addr_width, data_width, n) ==
    /\ held' = m.held
    /\ read_write_buffer' = m.rwb
    /\ len' = m.len
    /\ status' = m.status
    /\ addr_buffer' = m.addr_buffer
    /\ xfer' = m.xfer
    /\ outstanding' = m.outstanding
    /\ busPanic' = m.panic
    /\ busLast' = [kind |-> kind, buf |-> buffer, back |-> m.back,
                   ret |-> m.ret, aw8 |-> addr_width = "Bits8",
                   short |-> /\ buffer # None
                             /\ bufLen[buffer]
                                    < n * bus_width_in_bytes(data_width),
                   slot |-> read_write_buffer, status |-> status,
                   calls |-> m.calls,
                   delivered |-> m.delivered,
                   xfer |-> IF buffer = None THEN xfer ELSE NoXfer,
                   need |-> IF kind \in {"write", "read"}
                            THEN n * bus_width_in_bytes(data_width)
                            ELSE IF kind = "read_addr" /\ busKind = "i2c"
                                 THEN n
                                 ELSE 0]
    /\ UNCHANGED <<busKind, bufLen, busClient>>

\* the virtual ADC while the adapters run
AdcParked ==
    /\ devices = <<>>
    /\ inflight = None
    /\ operation = [u \in Users |-> "None"]
    /\ channel = [u \in Users |-> u % NumChannels]
    /\ client = [u \in Users |-> FALSE]
    /\ adcBusy = FALSE
    /\ adcUser = None
    /\ regOrder = <<>>
    /\ requested = [u \in Users |-> FALSE]
    /\ last = [kind |-> "new", user |-> None, ret |-> "none", value |-> 0,
               pre |-> None, calls |-> <<>>, delivered |-> <<>>,
               resub |-> {}]

\* the variables of the other parts, as seen from part 2
busOthers == <<adcVars, dispVars, fillVars, pressVars, widthVars,
    bmpVars, espVars>>

\* SpiBus::new / I2CBus::new; the board owns every static buffer
BusInit ==
    /\ AdcParked
    /\ DispParked
    /\ FillParked
    /\ PressParked
    /\ WidthParked
    /\ BmpParked
    /\ EspParked
    /\ busKind \in {"spi", "i2c", "master"}
    /\ bufLen \in BufLenMaps
    /\ held = Buffers
    /\ read_write_buffer = None
    /\ busClient = FALSE
    /\ len = 0
    /\ status = "Idle"
    /\ addr_buffer = TRUE
    /\ xfer = NoXfer
    /\ outstanding = {}
    /\ busPanic = FALSE
    /\ busLast = NoCall

\* SpiBus::set_read_write_buffer (OptionalCell::replace)
SetReadWriteBuffer(buffer) ==
    /\ busKind = "spi" /\ ~busPanic
    /\ buffer \in held
    /\ BusCommit([BusCur(buffer) EXCEPT !.rwb = buffer],
                 "set_read_write_buffer", buffer, "Bits8", "Bits8", 0)

\* SpiBus::set_client / I2CBus::set_client.  The board components set the
\* client when they wire the bus, before the first request (the guard
\* busClient of the request actions below).
BusSetClient ==
    /\ ~busPanic /\ ~busClient
    /\ busClient' = TRUE
    /\ busLast' = [NoCall EXCEPT !.kind = "set_client"]
    /\ UNCHANGED <<busKind, bufLen, held, read_write_buffer, len, status,
                   addr_buffer, xfer, outstanding, busPanic>>

SpiBusWrite(data_width, buffer, n, ok) ==
    /\ busKind = "spi" /\ ~busPanic /\ busClient
    /\ buffer \in held
    /\ BusCommit(SpiWrite(BusCur(buffer), data_width, buffer, n, ok),
                 "write", buffer, "Bits8", data_width, n)

SpiBusRead(data_width, buffer, n, ok) ==
    /\ busKind = "spi" /\ ~busPanic /\ busClient
    /\ buffer \in held
    /\ BusCommit(SpiRead(BusCur(buffer), data_width, buffer, n, ok),
                 "read", buffer, "Bits8", data_width, n)

SpiBusWriteAddr(addr_width, data_width, buffer, n, ok) ==
    /\ busKind = "spi" /\ ~busPanic /\ busClient
    /\ buffer \in held
    /\ BusCommit(SpiWriteAddr(BusCur(buffer), addr_width, data_width,
                              buffer, n, ok),
                 "write_addr", buffer, addr_width, data_width, n)

SpiBusReadAddr(addr_width, data_width, buffer, n, ok) ==
    /\ busKind = "spi" /\ ~busPanic /\ busClient
    /\ buffer \in held
    /\ BusCommit(SpiReadAddr(BusCur(buffer), addr_width, data_width,
                             buffer, n, ok),
                 "read_addr", buffer, addr_width, data_width, n)

\* the SPI device finishes its transfer and calls read_write_done with the
\* length it was given
SpiReadWriteDone ==
    /\ busKind = "spi" /\ ~busPanic
    /\ xfer # NoXfer
    /\ BusCommit(SpiDone([BusCur(None) EXCEPT !.xfer = NoXfer], xfer.wbuf,
                         xfer.rbuf, xfer.items),
                 "done", None, "Bits8", "Bits8", 0)

I2cBusWrite(data_width, buffer, n, ok) ==
    /\ busKind = "i2c" /\ ~busPanic /\ busClient
    /\ buffer \in held
    /\ BusCommit(I2cWrite(BusCur(buffer), data_width, buffer, n, ok),
                 "write", buffer, "Bits8", data_width, n)

I2cBusRead(data_width, buffer, n, ok) ==
    /\ busKind = "i2c" /\ ~busPanic /\ busClient
    /\ buffer \in held
    /\ BusCommit(I2cRead(BusCur(buffer), data_width, buffer, n, ok),
                 "read", buffer, "Bits8", data_width, n)

I2cBusWriteAddr(addr_width, data_width, buffer, n, ok) ==
    /\ busKind = "i2c" /\ ~busPanic /\ busClient
    /\ buffer \in held
    /\ BusCommit(I2cWriteAddr(BusCur(buffer), addr_width, data_width,
                              buffer, n, ok),
                 "write_addr", buffer, addr_width, data_width, n)

I2cBusReadAddr(addr_width, data_width, buffer, n, ok) ==
    /\ busKind = "i2c" /\ ~busPanic /\ busClient
    /\ buffer \in held
    /\ BusCommit(I2cReadAddr(BusCur(buffer), addr_width, data_width,
                             buffer, n, ok),
                 "read_addr", buffer, addr_width, data_width, n)

\* the I2C device finishes its transfer and calls command_complete
I2cCommandComplete(error) ==
    /\ busKind = "i2c" /\ ~busPanic
    /\ xfer # NoXfer
    /\ BusCommit(I2cDone([BusCur(None) EXCEPT !.xfer = NoXfer], xfer.wbuf,
                         error),
                 IF error = "CommandComplete" THEN "done" ELSE "failed",
                 None, "Bits8", "Bits8", 0)

\* ------------------------------------------------------ I2CMasterBus
\* The adapter behind Bus::set_addr / write / read of kernel::hil::bus.
\* Its source is not part of src/capsules/src/bus.rs; it is modelled from
\* sections 4.1 and 4.2 of the specification: one BusStatus transaction at
\* a time, set_addr sending a private one-byte address buffer.

\* Idle -> (set_addr) -> SetAddress
MasterSetAddrBody(m, addr_width) ==
    IF addr_width = "Bits8"
    THEN [DevCall([m EXCEPT !.addr_buffer = FALSE, !.status = "SetAddress"],
                  "write", None, None, 1, 0, TRUE)
            EXCEPT !.ret = "SUCCESS"]
    ELSE [m EXCEPT !.ret = "ENOSUPPORT"]

\* Idle -> (write) -> Write
MasterWriteBody(m, data_width, buffer, n) ==
    LET bytes == bus_width_in_bytes(data_width)
    IN  IF bufLen[buffer] >= n * bytes
        THEN [DevCall([m EXCEPT !.status = "Write"], "write", buffer, None,
                      n * bytes, n, TRUE)
                EXCEPT !.ret = "SUCCESS", !.outstanding = @ \cup {buffer}]
        ELSE BusErr(m, "ENOMEM", buffer)

\* Idle -> (read) -> Read
MasterReadBody(m, data_width, buffer, n) ==
    LET bytes == bus_width_in_bytes(data_width)
    IN  IF bufLen[buffer] >= n * bytes
        THEN [DevCall([m EXCEPT !.status = "Read"], "read", buffer, None,
                      n * bytes, n, TRUE)
                EXCEPT !.ret = "SUCCESS", !.outstanding = @ \cup {buffer}]
        ELSE BusErr(m, "ENOMEM", buffer)

\* faulty variant of MasterDone: BusStatus is not reset
MasterDoneKeepsStatus(m, x, error) ==
    IF m.status = "SetAddress"
    THEN [m EXCEPT !.addr_buffer = TRUE,
                   !.delivered = Append(@, [buf |-> None, len |-> 0])]
    ELSE BusClientComplete(m, x.wbuf,
             IF error = "CommandComplete" THEN x.items ELSE 0)

\* the completion of the device, dispatched on BusStatus
MasterDone(m, x, error) ==
    LET idle == [m EXCEPT !.status = "Idle"]
    IN  IF m.status = "SetAddress"
        THEN [idle EXCEPT !.addr_buffer = TRUE,
                          !.delivered = Append(@, [buf |-> None, len |-> 0])]
        ELSE BusClientComplete(idle, x.wbuf,
                 IF error = "CommandComplete" THEN x.items ELSE 0)

\* A caller issues a request only after the previous completion (the
\* adapter has no queue and trusts its callers to serialize).
MasterSetAddr(addr_width) ==
    /\ busKind = "master" /\ busClient
    /\ status = "Idle"
    /\ BusCommit(MasterSetAddrBody(BusCur(None), addr_width), "set_addr",
                 None, addr_width, "Bits8", 0)

MasterWrite(data_width, buffer, n) ==
    /\ busKind = "master" /\ busClient
    /\ status = "Idle"
    /\ buffer \in held
    /\ BusCommit(MasterWriteBody(BusCur(buffer), data_width, buffer, n),
                 "write", buffer, "Bits8", data_width, n)

MasterRead(data_width, buffer, n) ==
    /\ busKind = "master" /\ busClient
    /\ status = "Idle"
    /\ buffer \in held
    /\ BusCommit(MasterReadBody(BusCur(buffer), data_width, buffer, n),
                 "read", buffer, "Bits8", data_width, n)

MasterCommandComplete(error) ==
    /\ busKind = "master"
    /\ xfer # NoXfer
    /\ BusCommit(MasterDone([BusCur(None) EXCEPT !.xfer = NoXfer], xfer,
                            error),
                 IF error = "CommandComplete" THEN "done" ELSE "failed",
                 None, "Bits8", "Bits8", 0)

BusNext ==
    \/ (\E b \in Buffers : SetReadWriteBuffer(b)) /\ UNCHANGED busOthers
    \/ BusSetClient /\ UNCHANGED busOthers
    \/ (\E w \in DataWidths, b \in Buffers, n \in Counts, ok \in DevOutcomes :
            SpiBusWrite(w, b, n, ok)) /\ UNCHANGED busOthers
    \/ (\E w \in DataWidths, b \in Buffers, n \in Counts, ok \in DevOutcomes :
            SpiBusRead(w, b, n, ok)) /\ UNCHANGED busOthers
    \/ (\E c \in AddrCases, b \in Buffers, n \in Counts, ok \in DevOutcomes :
            SpiBusWriteAddr(c[1], c[2], b, n, ok)) /\ UNCHANGED busOthers
    \/ (\E c \in AddrCases, b \in Buffers, n \in Counts, ok \in DevOutcomes :
            SpiBusReadAddr(c[1], c[2], b, n, ok)) /\ UNCHANGED busOthers
    \/ SpiReadWriteDone /\ UNCHANGED busOthers
    \/ (\E w \in DataWidths, b \in Buffers, n \in Counts, ok \in DevOutcomes :
            I2cBusWrite(w, b, n, ok)) /\ UNCHANGED busOthers
    \/ (\E w \in DataWidths, b \in Buffers, n \in Counts, ok \in DevOutcomes :
            I2cBusRead(w, b, n, ok)) /\ UNCHANGED busOthers
    \/ (\E c \in AddrCases, b \in Buffers, n \in Counts, ok \in DevOutcomes :
            I2cBusWriteAddr(c[1], c[2], b, n, ok)) /\ UNCHANGED busOthers
    \/ (\E c \in AddrCases, b \in Buffers, n \in Counts, ok \in DevOutcomes :
            I2cBusReadAddr(c[1], c[2], b, n, ok)) /\ UNCHANGED busOthers
    \/ (\E e \in I2cErrors : I2cCommandComplete(e)) /\ UNCHANGED busOthers
    \/ (\E aw \in BusWidths : MasterSetAddr(aw)) /\ UNCHANGED busOthers
    \/ (\E w \in DataWidths, b \in Buffers, n \in Counts :
            MasterWrite(w, b, n)) /\ UNCHANGED busOthers
    \/ (\E w \in DataWidths, b \in Buffers, n \in Counts :
            MasterRead(w, b, n)) /\ UNCHANGED busOthers
    \/ (\E e \in I2cErrors : MasterCommandComplete(e)) /\ UNCHANGED busOthers

BusSpec == BusInit /\ [][BusNext]_<<busVars, busOthers>>

\* ------------------------------------------------------ properties, part 2
\* the buffer of the caller in a transfer: the read buffer of an SPI read,
\* otherwise the buffer that is written
ClientBuffer(x) == IF x.rbuf # None THEN x.rbuf ELSE x.wbuf

\* C11: every buffer accepted by write/read/write_addr/read_addr (Ok) is
\* handed back to the bus client exactly once through command_complete; from
\* acceptance to that callback only the device holds it; when an SPI read
\* completes the filler is back in read_write_buffer and the read buffer
\* goes to the client.
C11_BufferHandedBackOnce ==
    busKind \in {"spi", "i2c"} =>
    /\ outstanding = IF xfer = NoXfer THEN {} ELSE {ClientBuffer(xfer)}
    /\ \A b \in outstanding : b \notin held /\ b # read_write_buffer
    /\ busLast.kind \in {"done", "failed"} =>
          /\ Len(busLast.delivered) = 1
          /\ busLast.delivered[1].buf = ClientBuffer(busLast.xfer)
          /\ busLast.delivered[1].buf \in held
          /\ busLast.xfer.rbuf # None =>
                read_write_buffer = busLast.xfer.wbuf

C11_Witness ==
    /\ busKind = "spi"
    /\ busLast.kind = "done"
    /\ busLast.xfer.rbuf # None
    /\ busLast.slot = None

\* C12 (as claimed): write/read called with buffer.len() < count *
\* width_in_bytes fail with ENOMEM, return the same buffer in the error value
\* and issue no transfer on the device.
C12_ShortBufferENOMEM ==
    (/\ busKind \in {"spi", "i2c"}
     /\ busLast.kind \in {"write", "read"}
     /\ busLast.short) =>
        /\ busLast.ret = "ENOMEM"
        /\ busLast.back = busLast.buf
        /\ busLast.calls = <<>>

\* C12 (amended): as claimed, except that SpiBus::read does so only when
\* its read_write_buffer slot holds a buffer.
C12_ShortBufferENOMEMWithFiller ==
    (/\ busKind \in {"spi", "i2c"}
     /\ busLast.kind \in {"write", "read"}
     /\ busLast.short
     /\ ~(busKind = "spi" /\ busLast.kind = "read" /\ busLast.slot = None)) =>
        /\ busLast.ret = "ENOMEM"
        /\ busLast.back = busLast.buf
        /\ busLast.calls = <<>>

C12_Witness ==
    /\ busKind = "spi"
    /\ busLast.kind = "read"
    /\ busLast.short
    /\ busLast.slot # None
    /\ busLast.ret = "ENOMEM"

\* C13: an address phase with an address width other than Bits8 fails with
\* ENOSUPPORT, hands the buffer back, issues no device transfer and leaves
\* the internal buffer slot of the adapter unchanged.
C13_AddrWidthENOSUPPORT ==
    (/\ busLast.kind \in {"set_addr", "write_addr", "read_addr"}
     /\ ~busLast.aw8) =>
        /\ busLast.ret = "ENOSUPPORT"
        /\ busLast.back = busLast.buf
        /\ busLast.calls = <<>>
        /\ read_write_buffer = busLast.slot
        /\ addr_buffer

C13_Witness ==
    /\ busKind = "spi"
    /\ busLast.kind = "read_addr"
    /\ ~busLast.aw8
    /\ busLast.slot # None

\* C14: I2CBus reports a device completion with an error other than
\* CommandComplete as command_complete(buffer, 0), still returning the
\* buffer and without a retry; a CommandComplete completion reports the
\* item count of the operation.
C14_I2cErrorIsZeroLength ==
    (busKind = "i2c" /\ busLast.kind \in {"done", "failed"}) =>
        /\ Len(busLast.delivered) = 1
        /\ busLast.delivered[1].buf = busLast.xfer.wbuf
        /\ busLast.calls = <<>>
        /\ busLast.delivered[1].len =
              IF busLast.kind = "done" THEN busLast.xfer.items ELSE 0

\* C15: SpiBus::read, and SpiBus::read_addr with a Bits8 address, invoked
\* while read_write_buffer is empty, panic instead of returning an error.
C15_SpiReadPanicsOnEmptySlot ==
    (/\ busKind = "spi"
     /\ busLast.slot = None
     /\ \/ busLast.kind = "read"
        \/ busLast.kind = "read_addr" /\ busLast.aw8) =>
        busPanic /\ busLast.ret = "panic"

\* the filler is checked out by a read that is still in flight
C15_Witness ==
    /\ busPanic
    /\ busLast.kind = "read"
    /\ xfer.rbuf # None

\* C16: every accepted set_addr, write or read yields exactly one
\* command_complete; set_addr completes with buffer None and len 0, write
\* and read with the buffer of the caller; with the requests issued one
\* after the other, each after the previous completion, the adapter is Idle
\* between the steps and each completion belongs to the step just issued.
C16_BusProtocol ==
    busKind = "master" =>
    /\ (status = "Idle") = (xfer = NoXfer)
    /\ outstanding = IF status \in {"Write", "Read"} THEN {xfer.wbuf} ELSE {}
    /\ (busLast.kind \in {"set_addr", "write", "read"}
          /\ busLast.ret = "SUCCESS") =>
          /\ Len(busLast.calls) = 1
          /\ status = CASE busLast.kind = "set_addr" -> "SetAddress"
                        [] busLast.kind = "write" -> "Write"
                        [] busLast.kind = "read" -> "Read"
    /\ busLast.kind \in {"done", "failed"} =>
          /\ status = "Idle"
          /\ Len(busLast.delivered) = 1
          /\ busLast.status = "SetAddress" =>
                busLast.delivered[1] = [buf |-> None, len |-> 0]
          /\ busLast.status \in {"Write", "Read"} =>
                /\ busLast.delivered[1].buf = busLast.xfer.wbuf
                /\ busLast.delivered[1].buf \in held
          /\ busLast.status =
                CASE busLast.xfer.wbuf = None -> "SetAddress"
                  [] busLast.xfer.op = "write" -> "Write"
                  [] busLast.xfer.op = "read" -> "Read"

C16_Witness ==
    /\ busKind = "master"
    /\ busLast.kind = "done"
    /\ busLast.status = "Read"
    /\ busLast.delivered[1].len > 0

\* ======================================================================
\* Part 3: capsules/src/st7789h2.rs -- the display driver
\* ======================================================================

\* ------------------------------------------------------------------ bounds
\* the screen is ScreenWidth x ScreenHeight pixels (240 x 240 on the part)
ScreenWidth == 3
ScreenHeight == 3
\* a board may hand ST7789H2::new a sequence buffer shorter than the static
\* SEQUENCE_BUFFER
SmallSequenceBuffer == 2
\* the longest pixel slice a client writes, in bytes
MaxWriteLen == 1
\* the calls that change the state of the driver, per run
MaxRequests == 2

\* the longest shared buffer a board hands to new() in part 4
MaxFillBuffer == 25

\* the processes that use the pressure sensor
NumApps == 2

\* the largest pressure value the sensor reports
MaxPressure == 1

\* the largest item count of a transfer in part 6
MaxItems == 3

\* part 8: processes with a grant, length of the kernel tx buffer, length
\* of the slice a process allows, accepted writes of a process that wait
\* for their callback
NumEspApps == 2
MaxTxBuffer == 2
MaxSliceLen == 3
MaxOwed == 2

\* --------------------------------------------------------------- constants
BUFFER_SIZE == 24
SEQUENCE_BUFFER_SIZE == 24

\* the first byte of the shared buffer that fill uses for pixels
FILL_OFFSET == 9

\* ---------------------------------------------------------------- commands
\* the static Command values: the number of default parameters
CommandParameters(cmd) ==
    CASE cmd \in {"CASET", "RASET"} -> 4
      [] cmd \in {"NORMAL_DISPLAY", "COLOR_MODE", "GATE_CTRL", "LCM_CTRL",
                  "VDV_SET", "FR_CTRL", "VCOM_SET", "TEARING_EFFECT"} -> 1
      [] cmd \in {"PV_GAMMA_CTRL", "NV_GAMMA_CTRL"} -> 14
      [] cmd = "PORCH_CTRL" -> 5
      [] cmd \in {"VDV_VRH_EN", "POWER_CTRL"} -> 2
      [] OTHER -> 0

\* the static Command values: Command.delay
CommandDelay(cmd) ==
    CASE cmd = "SW_RESET" -> 200
      [] cmd = "SLEEP_IN" -> 10
      [] cmd \in {"SLEEP_OUT", "DISPLAY_INVERSION"} -> 120
      [] cmd \in {"DISPLAY_ON", "IDLE_OFF"} -> 20
      [] OTHER -> 0

\* enum SendCommand: Nop, Default(cmd), Position(cmd, position, len),
\* Repeat(cmd, position, len, repeat), Slice(cmd, len)
El(tag, cmd, position, l, repeat) ==
    [tag |-> tag, cmd |-> cmd, position |-> position, len |-> l,
     repeat |-> repeat]

ElNop == El("Nop", "NOP", 0, 0, 0)

ElDefault(cmd) == El("Default", cmd, 0, 0, 0)

ElPosition(cmd, position, l) == El("Position", cmd, position, l, 0)

ElRepeat(cmd, position, l, repeat) == El("Repeat", cmd, position, l, repeat)

ElSlice(cmd, l) == El("Slice", cmd, 0, l, 0)

INIT_SEQUENCE ==
    << ElDefault("SLEEP_IN"), ElDefault("SW_RESET"), ElDefault("SLEEP_OUT"),
       ElDefault("NORMAL_DISPLAY"), ElDefault("COLOR_MODE"),
       ElDefault("DISPLAY_INVERSION"), ElDefault("CASET"), ElDefault("RASET"),
       ElDefault("PORCH_CTRL"), ElDefault("GATE_CTRL"), ElDefault("VCOM_SET"),
       ElDefault("LCM_CTRL"), ElDefault("VDV_VRH_EN"), ElDefault("VDV_SET"),
       ElDefault("FR_CTRL"), ElDefault("POWER_CTRL"),
       ElDefault("PV_GAMMA_CTRL"), ElDefault("NV_GAMMA_CTRL"),
       ElDefault("DISPLAY_ON"), ElDefault("SLEEP_OUT"),
       ElDefault("TEARING_EFFECT") >>

WRITE_PIXEL ==
    << ElPosition("CASET", 1, 4), ElPosition("RASET", 5, 4),
       ElPosition("WRITE_RAM", 9, 2) >>

\* sequence[i] = el on a slice of sequence_buffer.len() elements: an index
\* out of bounds panics
SeqStore(m, i, el) ==
    IF m.panic THEN m
    ELSE IF i < Len(m.seq) THEN [m EXCEPT !.seq[i + 1] = el]
    ELSE [m EXCEPT !.panic = TRUE]

\* ------------------------------------------------- the handler-local state
DispCur ==
    [status |-> dispStatus, seq |-> sequence_buffer,
     seqlen |-> sequence_len, pos |-> position_in_sequence,
     command |-> command, buffer |-> dispBuffer, wbuf |-> dispWriteBuffer,
     power_on |-> power_on, setup_command |-> setup_command,
     pending |-> memPending, alarm |-> alarm, pin |-> resetPin,
     app |-> appHolds, replay |-> replay, panic |-> FALSE, ret |-> "none",
     xfers |-> <<>>, alarms |-> <<>>, pins |-> <<>>, notes |-> <<>>,
     ssLen |-> 0, ssRet |-> "none", sent |-> <<>>, replayed |-> FALSE,
     done |-> FALSE, elem |-> NoElement, wait |-> -1]

DispPanics(m) == [m EXCEPT !.panic = TRUE]

DispRet(m, code) == IF m.panic THEN m ELSE [m EXCEPT !.ret = code]

\* mem.write_addr / mem.write: the memory bus runs one transfer at a time
\* and completes it later through command_complete; a request made while a
\* transfer runs is refused, and as the calls return a bare ReturnCode the
\* buffer of a refused request does not come back
MemRequest(m, buf, op, n) ==
    IF m.pending = NoMem
    THEN [m EXCEPT !.pending = [buf |-> buf, op |-> op, n |-> n],
                   !.xfers = Append(@, [buf |-> buf, op |-> op, n |-> n,
                                        ok |-> TRUE])]
    ELSE [m EXCEPT !.xfers = Append(@, [buf |-> buf, op |-> op, n |-> n,
                                        ok |-> FALSE])]

\* ST7789H2::set_delay
set_delay(m, timer, next_status) ==
    [m EXCEPT !.status = next_status, !.alarm = timer,
              !.alarms = Append(@, timer)]

\* ST7789H2::send_command
send_command(m, cmd, position, l, repeat) ==
    LET t == [m EXCEPT !.command = cmd,
                       !.status = St("SendCommand", position, l, repeat)]
    IN IF t.buffer = "none" THEN DispPanics(t)
       ELSE MemRequest([t EXCEPT !.buffer = "none",
                                 !.replay.opcodes = @ + 1],
                       t.buffer, "write_addr", 0)

\* ST7789H2::send_command_with_default_parameters
send_command_with_default_parameters(m, cmd) ==
    IF m.buffer = "none" THEN DispPanics(m)
    ELSE send_command(m, cmd, 0, CommandParameters(cmd), 1)

\* ST7789H2::send_command_slice
send_command_slice(m, cmd, l) ==
    LET t == [m EXCEPT !.command = cmd,
                       !.status = St("SendCommandSlice", 0, l, 0)]
    IN IF t.buffer = "none" THEN DispPanics(t)
       ELSE MemRequest([t EXCEPT !.buffer = "none",
                                 !.replay.opcodes = @ + 1],
                       t.buffer, "write_addr", 0)

\* ST7789H2::send_parameters_slice
send_parameters_slice(m, l) ==
    IF m.wbuf = "none" THEN DispPanics(m)
    ELSE MemRequest([m EXCEPT !.wbuf = "none",
                              !.status = St("SendParametersSlice", 0, 0, 0),
                              !.replay.writes = @ + 1],
                    m.wbuf, "write16", l \div 2)

\* the end of a sequence in ST7789H2::do_next_op, with power_on left
\* unset on the first completion
SequenceDoneNoPower(m) ==
    LET t0 == [m EXCEPT !.status = StIdle, !.done = TRUE,
                        !.sent = m.replay.sent,
                        !.replayed = m.replay.active, !.replay = NoReplay]
        t == IF callback THEN [t0 EXCEPT !.notes = Append(@, "callback")]
             ELSE t0
    IN IF ~t.power_on
       THEN IF screenClient
            THEN [t EXCEPT !.notes = Append(@, "screen_is_ready")]
            ELSE t
       ELSE t

\* the end of a sequence in ST7789H2::do_next_op (lines 608-632): status
\* Idle, then the callback and the clients are told
SequenceDone(m) ==
    LET t0 == [m EXCEPT !.status = StIdle, !.done = TRUE,
                        !.sent = m.replay.sent,
                        !.replayed = m.replay.active, !.replay = NoReplay]
        t == IF callback THEN [t0 EXCEPT !.notes = Append(@, "callback")]
             ELSE t0
    IN IF ~t.power_on
       THEN IF screenClient
            THEN [t EXCEPT !.power_on = TRUE,
                           !.notes = Append(@, "screen_is_ready")]
            ELSE t
       ELSE IF t.setup_command
       THEN IF setup_client
            THEN [t EXCEPT !.setup_command = FALSE,
                           !.notes = Append(@, "setup_command_complete")]
            ELSE [t EXCEPT !.setup_command = FALSE]
       ELSE IF ~screenClient THEN t
       ELSE IF t.wbuf # "none"
       THEN [t EXCEPT !.wbuf = "none",
                      !.app = IF t.wbuf = "app" THEN TRUE ELSE @,
                      !.notes = Append(@, IF t.wbuf = "app"
                                          THEN "write_complete"
                                          ELSE "write_complete_shared")]
       ELSE [t EXCEPT !.notes = Append(@, "command_complete")]

RECURSIVE do_next_op(_)
RECURSIVE send_parameters(_, _, _, _)
RECURSIVE send_sequence_buffer(_)
RECURSIVE send_sequence(_, _)

\* the wait after a command in ST7789H2::do_next_op (lines 640-652 and
\* 661-672)
CommandDelayStep(m) ==
    LET delay == CommandDelay(m.command)
        t == [m EXCEPT !.wait = delay]
    IN IF delay > 0
       THEN set_delay(t, IF delay = 255 THEN 500 ELSE delay,
                      St("Delay", 0, 0, 0))
       ELSE do_next_op([t EXCEPT !.status = St("Delay", 0, 0, 0)])

\* the next element of the sequence in ST7789H2::do_next_op (lines 585-607)
SequenceStep(m) ==
    LET position == m.pos
        c == IF m.replay.active /\ m.replay.sent # <<>>
                /\ position >= 1 /\ position <= Len(m.seq)
             THEN [m EXCEPT !.elem = [set |-> TRUE, el |-> m.seq[position],
                                      opcodes |-> m.replay.opcodes,
                                      writes |-> m.replay.writes],
                            !.replay.opcodes = 0, !.replay.writes = 0]
             ELSE m
        t == [c EXCEPT !.pos = m.pos + 1]
    IN IF position < t.seqlen
       THEN LET el == t.seq[position + 1]
                s == [t EXCEPT !.replay.sent = Append(@, position)]
            IN CASE el.tag = "Nop" -> do_next_op(s)
                 [] el.tag = "Default" ->
                        send_command_with_default_parameters(s, el.cmd)
                 [] el.tag = "Position" ->
                        send_command(s, el.cmd, el.position, el.len, 1)
                 [] el.tag = "Repeat" ->
                        send_command(s, el.cmd, el.position, el.len,
                                     el.repeat)
                 [] el.tag = "Slice" -> send_command_slice(s, el.cmd, el.len)
       ELSE SequenceDone(t)

\* ST7789H2::do_next_op
do_next_op(m) ==
    IF m.panic THEN m
    ELSE CASE m.status.tag = "Delay" -> SequenceStep(m)
           [] m.status.tag = "SendCommand" ->
                  IF m.status.repeat = 0 THEN CommandDelayStep(m)
                  ELSE send_parameters(m, m.status.position, m.status.len,
                                       m.status.repeat)
           [] m.status.tag = "SendCommandSlice" ->
                  send_parameters_slice(m, m.status.len)
           [] m.status.tag = "SendParametersSlice" -> CommandDelayStep(m)
           [] m.status.tag = "Reset1" ->
                  LET t == send_command_with_default_parameters(m, "NOP")
                  IN IF t.panic THEN t
                     ELSE set_delay([t EXCEPT !.pin = "low",
                                              !.pins = Append(@, "low")],
                                    5, St("Reset2", 0, 0, 0))
           [] m.status.tag = "Reset2" ->
                  set_delay([m EXCEPT !.pin = "high",
                                      !.pins = Append(@, "high")],
                            10, St("Reset3", 0, 0, 0))
           [] m.status.tag = "Reset3" ->
                  set_delay([m EXCEPT !.pin = "low",
                                      !.pins = Append(@, "low")],
                            20, St("Reset4", 0, 0, 0))
           [] m.status.tag = "Reset4" ->
                  set_delay([m EXCEPT !.pin = "high",
                                      !.pins = Append(@, "high")],
                            10, St("Init", 0, 0, 0))
           [] m.status.tag = "Init" ->
                  send_sequence([m EXCEPT !.status = StIdle], INIT_SEQUENCE)
           [] OTHER -> DispPanics(m)

\* ST7789H2::send_parameters, forgetting the writes still to come
SendParametersOnce(m, position, l, repeat) ==
    LET t == [m EXCEPT !.status = St("SendCommand", 0, l, 0)]
    IN IF l > 0
       THEN IF t.buffer = "none" THEN DispPanics(t)
            ELSE MemRequest([t EXCEPT !.buffer = "none",
                                      !.replay.writes = @ + 1],
                            t.buffer, "write", l)
       ELSE do_next_op(t)

\* ST7789H2::send_parameters
send_parameters(m, position, l, repeat) ==
    LET t == [m EXCEPT !.status = St("SendCommand", 0, l, repeat - 1)]
    IN IF l > 0
       THEN IF t.buffer = "none" THEN DispPanics(t)
            ELSE MemRequest([t EXCEPT !.buffer = "none",
                                      !.replay.writes = @ + 1],
                            t.buffer, "write", l)
       ELSE do_next_op(t)

\* ST7789H2::send_sequence_buffer
send_sequence_buffer(m) ==
    IF m.panic THEN m
    ELSE IF m.status = StIdle
    THEN DispRet(do_next_op([m EXCEPT !.pos = 0,
                                      !.status = St("Delay", 0, 0, 0),
                                      !.replay = [NoReplay EXCEPT
                                                      !.active = TRUE]]),
                 "SUCCESS")
    ELSE DispRet(m, "EBUSY")

\* ST7789H2::send_sequence, with sequence_len set before the length check
SendSequenceSetsLenFirst(m, sequence) ==
    LET r == IF m.status = StIdle
             THEN IF Len(sequence) <= Len(m.seq)
                  THEN send_sequence_buffer(
                           [m EXCEPT !.seqlen = Len(sequence),
                                     !.seq = [i \in 1..Len(m.seq) |->
                                                IF i <= Len(sequence)
                                                THEN sequence[i]
                                                ELSE m.seq[i]]])
                  ELSE DispRet([m EXCEPT !.seqlen = Len(sequence)],
                               "ENOMEM")
             ELSE DispRet(m, "EBUSY")
    IN [r EXCEPT !.ssLen = Len(sequence), !.ssRet = r.ret]

\* ST7789H2::send_sequence
send_sequence(m, sequence) ==
    LET r == IF m.status = StIdle
             THEN IF Len(sequence) <= Len(m.seq)
                  THEN send_sequence_buffer(
                           [m EXCEPT !.seqlen = Len(sequence),
                                     !.seq = [i \in 1..Len(m.seq) |->
                                                IF i <= Len(sequence)
                                                THEN sequence[i]
                                                ELSE m.seq[i]]])
                  ELSE DispRet(m, "ENOMEM")
             ELSE DispRet(m, "EBUSY")
    IN [r EXCEPT !.ssLen = Len(sequence), !.ssRet = r.ret]

\* the screen is width x height pixels (the width and height cells set
\* by new())
ScreenPixels(driver) == 240 * 240

\* `bytes` in fill: 240 * 240 * 2 in ST7789H2::fill, 128 * 160 * 2 in
\* LS016B8UY::fill
fill_bytes(driver) ==
    IF driver = "LS016B8UY" THEN 128 * 160 * 2 ELSE 240 * 240 * 2

\* `buffer_space` in fill: (buffer.len() - 9) / 2 * 2
fill_buffer_space(buffer_len) == ((buffer_len - FILL_OFFSET) \div 2) * 2

\* `repeat` in fill: (bytes / buffer_space) + 1
fill_repeat(bytes, buffer_space) == (bytes \div buffer_space) + 1

\* the loop of fill over the shared buffer; indices are those of the
\* source, the sequence is 1-based
fill_buffer(buffer, color) ==
    LET buffer_space == fill_buffer_space(Len(buffer))
    IN [k \in 1..Len(buffer) |->
           LET at == k - 1
           IN IF at >= FILL_OFFSET /\ at < FILL_OFFSET + buffer_space
              THEN IF (at - FILL_OFFSET) % 2 = 0
                   THEN (color \div 256) % 256
                   ELSE color % 256
              ELSE buffer[k]]

\* ST7789H2::fill, without the Idle guard
FillUnguarded(m, color) ==
    LET buffer_space == fill_buffer_space(BUFFER_SIZE)
        repeat == fill_repeat(ScreenWidth * ScreenHeight * 2, buffer_space)
        s1 == SeqStore(SeqStore(m, 0, ElDefault("CASET")),
                       1, ElDefault("RASET"))
        s2 == IF s1.panic \/ s1.buffer = "none" THEN DispPanics(s1)
              ELSE SeqStore(s1, 2, ElRepeat("WRITE_RAM", FILL_OFFSET,
                                            buffer_space,
                                            repeat))
        s3 == IF s2.panic THEN s2
              ELSE send_sequence_buffer([s2 EXCEPT !.seqlen = 3])
    IN DispRet(s3, "SUCCESS")

\* ST7789H2::fill; the screen is ScreenWidth x ScreenHeight pixels of two
\* bytes
fill(m, color) ==
    IF m.status = StIdle
    THEN LET buffer_space == fill_buffer_space(BUFFER_SIZE)
             repeat == fill_repeat(ScreenWidth * ScreenHeight * 2,
                                   buffer_space)
             s1 == SeqStore(SeqStore(m, 0, ElDefault("CASET")),
                            1, ElDefault("RASET"))
             s2 == IF s1.panic \/ s1.buffer = "none" THEN DispPanics(s1)
                   ELSE SeqStore(s1, 2, ElRepeat("WRITE_RAM", FILL_OFFSET,
                                                 buffer_space, repeat))
             s3 == IF s2.panic THEN s2
                   ELSE send_sequence_buffer([s2 EXCEPT !.seqlen = 3])
         IN DispRet(s3, "SUCCESS")
    ELSE DispRet(m, "EBUSY")

\* ST7789H2::rotation: the Idle guard is commented out in the source
rotation(m, normal) ==
    DispRet(send_command_with_default_parameters(m, "NOP"),
            IF normal THEN "SUCCESS" ELSE "ENOSUPPORT")

\* ST7789H2::display_on and ST7789H2::display_off
display_on_off(m, cmd) ==
    IF m.status = StIdle
    THEN IF ~m.power_on THEN DispRet(m, "EOFF")
         ELSE DispRet(send_command_with_default_parameters(
                          [m EXCEPT !.setup_command = FALSE], cmd),
                      "SUCCESS")
    ELSE DispRet(m, "EBUSY")

\* ST7789H2::set_brightness
set_brightness(m, brightness) ==
    IF brightness > 0 THEN display_on_off(m, "DISPLAY_ON")
    ELSE display_on_off(m, "DISPLAY_OFF")

\* ST7789H2::set_resolution and ST7789H2::set_pixel_format: supported is
\* the comparison with the one resolution / pixel format of the screen,
\* code the error of the other branch
set_format(m, supported, code) ==
    IF m.status = StIdle
    THEN IF supported
         THEN DispRet(IF setup_client
                      THEN [m EXCEPT !.notes =
                                Append(@, "setup_command_complete")]
                      ELSE m,
                      "SUCCESS")
         ELSE DispRet(m, code)
    ELSE DispRet(m, "EBUSY")

\* ST7789H2::set_memory_frame: the bounds and the guard (the bytes of the
\* shared buffer are not part of the state)
set_memory_frame(m, sx, sy, ex, ey) ==
    IF sx <= ScreenWidth /\ sy <= ScreenHeight /\ ex <= ScreenWidth
       /\ ey <= ScreenHeight /\ sx <= ex /\ sy <= ey
    THEN IF m.status = StIdle
         THEN IF m.buffer = "none" THEN DispPanics(m)
              ELSE DispRet(m, "SUCCESS")
         ELSE DispRet(m, "EBUSY")
    ELSE DispRet(m, "EINVAL")

\* ST7789H2::write_pixel
write_pixel(m, x, y) ==
    IF x < ScreenWidth /\ y < ScreenHeight
    THEN IF m.status = StIdle
         THEN IF m.buffer = "none" THEN DispPanics(m)
              ELSE send_sequence(m, WRITE_PIXEL)
         ELSE DispRet(m, "EBUSY")
    ELSE DispRet(m, "EINVAL")

\* ST7789H2::init
init(m) ==
    IF m.status = StIdle
    THEN DispRet(do_next_op([m EXCEPT !.status = St("Reset1", 0, 0, 0)]),
                 "SUCCESS")
    ELSE DispRet(m, "EBUSY")

\* Screen::set_write_frame; x + width - 1 and y + height - 1 are usize
\* subtractions: below zero they panic in a checked build and wrap around
\* (to a value above every screen size) in an unchecked one
set_write_frame(m, x, y, width, height, checked) ==
    IF m.status = StIdle
    THEN LET t == [m EXCEPT !.setup_command = FALSE]
             wraps == x + width = 0 \/ y + height = 0
             ex == IF x + width = 0 THEN ScreenWidth + 1 ELSE x + width - 1
             ey == IF y + height = 0 THEN ScreenHeight + 1
                   ELSE y + height - 1
         IN IF t.buffer = "none" THEN DispPanics(t)
            ELSE IF BUFFER_SIZE - 1 >= 9
            THEN IF wraps /\ checked THEN DispPanics(t)
                 ELSE LET e == set_memory_frame(t, x, y, ex, ey)
                      IN IF e.panic \/ e.ret # "SUCCESS" THEN e
                         ELSE LET s == SeqStore(
                                         SeqStore(e, 0,
                                             ElPosition("CASET", 0, 4)),
                                         1, ElPosition("RASET", 4, 4))
                              IN IF s.panic THEN s
                                 ELSE DispRet(send_sequence_buffer(
                                                [s EXCEPT !.seqlen = 2]),
                                              "SUCCESS")
            ELSE DispRet(t, "ENOMEM")
    ELSE DispRet(m, "EBUSY")

\* Screen::write: the buffer of the caller is moved into the call; l is
\* the len argument
write(m, l) ==
    LET c == [m EXCEPT !.app = FALSE]
    IN IF c.status = StIdle
       THEN LET t == [c EXCEPT !.setup_command = FALSE, !.wbuf = "app"]
            IN IF t.buffer = "none" THEN DispPanics(t)
               ELSE IF BUFFER_SIZE > 0
               THEN LET s == SeqStore(t, 0, ElSlice("WRITE_RAM", l))
                    IN IF s.panic THEN s
                       ELSE DispRet(send_sequence_buffer(
                                        [s EXCEPT !.seqlen = 1]),
                                    "SUCCESS")
               ELSE DispRet(t, "ENOMEM")
       ELSE DispRet(c, "EBUSY")

\* memory_async::Client::command_complete for ST7789H2
command_complete(m) ==
    LET buffer == m.pending.buf
        t == IF m.status.tag = "SendParametersSlice"
             THEN [m EXCEPT !.wbuf = buffer, !.pending = NoMem]
             ELSE [m EXCEPT !.buffer = buffer, !.pending = NoMem]
    IN do_next_op(t)

\* AlarmClient::fired for ST7789H2
fired(m) == do_next_op([m EXCEPT !.alarm = 0])

\* ---------------------------------------------------------------- actions
\* the handler is over: the fields are written back
DispCommit(m, kind, ret, args) ==
    /\ dispStatus' = m.status
    /\ sequence_buffer' = m.seq
    /\ sequence_len' = m.seqlen
    /\ position_in_sequence' = m.pos
    /\ command' = m.command
    /\ dispBuffer' = m.buffer
    /\ dispWriteBuffer' = m.wbuf
    /\ power_on' = m.power_on
    /\ setup_command' = m.setup_command
    /\ memPending' = m.pending
    /\ alarm' = m.alarm
    /\ resetPin' = m.pin
    /\ appHolds' = m.app
    /\ dispPanic' = m.panic
    /\ replay' = m.replay
    /\ dispLast' = [kind |-> kind, ret |-> IF m.panic THEN "panic" ELSE ret,
                    pre |-> dispStatus, xfers |-> m.xfers,
                    alarms |-> m.alarms, pins |-> m.pins, notes |-> m.notes,
                    ssLen |-> m.ssLen, ssRet |-> m.ssRet, sent |-> m.sent,
                    replayed |-> m.replayed, done |-> m.done,
                    elem |-> m.elem, wait |-> m.wait, wasOn |-> power_on,
                    args |-> args]
    /\ UNCHANGED <<callback, screenClient, setup_client>>

\* the fields of the driver and of its environment, without the history
DispCore(m) ==
    [status |-> m.status, seq |-> m.seq, seqlen |-> m.seqlen, pos |-> m.pos,
     command |-> m.command, buffer |-> m.buffer, wbuf |-> m.wbuf,
     power_on |-> m.power_on, setup_command |-> m.setup_command,
     pending |-> m.pending, alarm |-> m.alarm, pin |-> m.pin, app |-> m.app,
     panic |-> m.panic]

\* a call from the board, the screen capsule or a process: at most
\* MaxRequests calls per run change the driver
DispCallWith(m, kind, args) ==
    /\ DispCore(m) # DispCore(DispCur) => requests < MaxRequests
    /\ requests' = IF DispCore(m) # DispCore(DispCur) THEN requests + 1
                   ELSE requests
    /\ DispCommit(m, kind, m.ret, args)

\* a call without coordinates
DispCall(m, kind) == DispCallWith(m, kind, <<>>)

\* a completion: the memory bus or the alarm calls the driver
DispEvent(m, kind) ==
    /\ requests' = requests
    /\ DispCommit(m, kind, "none", <<>>)

\* the virtual ADC and the adapters while the display driver runs
dispOthers == <<adcVars, busVars, fillVars, pressVars, widthVars,
    bmpVars, espVars>>

\* the sequence buffers a board may pass to ST7789H2::new
SequenceBufferSizes == {SmallSequenceBuffer, SEQUENCE_BUFFER_SIZE}

\* ST7789H2::new
DispInit ==
    /\ AdcParked
    /\ BusParked
    /\ FillParked
    /\ PressParked
    /\ WidthParked
    /\ BmpParked
    /\ EspParked
    /\ dispStatus = StIdle
    /\ callback = FALSE
    /\ screenClient = FALSE
    /\ setup_client = FALSE
    /\ setup_command = FALSE
    /\ \E capacity \in SequenceBufferSizes :
           sequence_buffer = [i \in 1..capacity |-> ElNop]
    /\ position_in_sequence = 0
    /\ sequence_len = 0
    /\ command = "NOP"
    /\ dispBuffer = "shared"
    /\ dispWriteBuffer = "none"
    /\ power_on = FALSE
    /\ memPending = NoMem
    /\ alarm = 0
    /\ resetPin = "unset"
    /\ appHolds = FALSE
    /\ dispPanic = FALSE
    /\ replay = NoReplay
    /\ requests = 0
    /\ dispLast = NoDispCall

\* the board wires the driver either to the system call interface
\* (Driver::subscribe) or to a screen client and a setup client
Wired == callback \/ (screenClient /\ setup_client)

DispUnchangedByWiring ==
    UNCHANGED <<dispStatus, setup_command, sequence_buffer,
                position_in_sequence, sequence_len, command, dispBuffer,
                dispWriteBuffer, power_on, memPending, alarm, resetPin,
                dispPanic, replay, requests>>

\* Driver::subscribe
Subscribe ==
    /\ ~callback /\ ~screenClient /\ ~setup_client
    /\ callback' = TRUE
    /\ dispLast' = [NoDispCall EXCEPT !.kind = "subscribe"]
    /\ UNCHANGED <<screenClient, setup_client, appHolds>>
    /\ DispUnchangedByWiring

\* Screen::set_client; the client owns one pixel buffer
ScreenSetClient ==
    /\ ~callback /\ ~screenClient
    /\ screenClient' = TRUE
    /\ appHolds' = TRUE
    /\ dispLast' = [NoDispCall EXCEPT !.kind = "set_client"]
    /\ UNCHANGED <<callback, setup_client>>
    /\ DispUnchangedByWiring

\* ScreenSetup::set_client
SetupSetClient ==
    /\ ~callback /\ ~setup_client
    /\ setup_client' = TRUE
    /\ dispLast' = [NoDispCall EXCEPT !.kind = "setup_set_client"]
    /\ UNCHANGED <<callback, screenClient, appHolds>>
    /\ DispUnchangedByWiring

DispReady == Wired /\ ~dispPanic

\* the pixels a caller asks for: the corners of the screen and the first
\* pixel beyond it in either direction
PixelInputs ==
    {<<0, 0>>, <<ScreenWidth - 1, ScreenHeight - 1>>, <<ScreenWidth, 0>>,
     <<0, ScreenHeight>>}

\* the frames <<x, y, width, height>> a caller asks for: the whole screen,
\* one pixel, frames one pixel too wide or too high, frames that reach
\* beyond the screen, and empty frames
FrameInputs ==
    {<<0, 0, ScreenWidth, ScreenHeight>>, <<0, 0, 1, 1>>,
     <<1, 0, ScreenWidth, 1>>, <<0, 1, 1, ScreenHeight>>,
     <<0, 0, ScreenWidth + 1, 1>>, <<ScreenWidth, ScreenHeight, 1, 1>>,
     <<0, 0, 0, 1>>, <<1, 1, 1, 0>>}

ScreenInit ==
    /\ DispReady
    /\ LET m == init(DispCur) IN DispCall(m, "init")

ScreenFill ==
    /\ DispReady
    /\ LET m == fill(DispCur, 0) IN DispCall(m, "fill")

ScreenWritePixel(x, y) ==
    /\ DispReady
    /\ LET m == write_pixel(DispCur, x, y)
       IN DispCallWith(m, "write_pixel", <<x, y>>)

ScreenSetWriteFrame(x, y, width, height, checked) ==
    /\ DispReady
    /\ LET m == set_write_frame(DispCur, x, y, width, height, checked)
       IN DispCallWith(m, "set_write_frame", <<x, y, width, height>>)

ScreenWrite(l) ==
    /\ DispReady
    /\ appHolds
    /\ LET m == write(DispCur, l) IN DispCall(m, "write")

ScreenSetRotation(normal) ==
    /\ DispReady
    /\ LET m == rotation(DispCur, normal)
       IN DispCall(m, "set_rotation")

ScreenSetBrightness(brightness) ==
    /\ DispReady
    /\ LET m == set_brightness(DispCur, brightness)
       IN DispCallWith(m, "set_brightness", <<brightness>>)

ScreenSetResolution(supported) ==
    /\ DispReady
    /\ LET m == set_format(DispCur, supported, "ENOSUPPORT")
       IN DispCall(m, "set_resolution")

ScreenSetPixelFormat(supported) ==
    /\ DispReady
    /\ LET m == set_format(DispCur, supported, "EINVAL")
       IN DispCall(m, "set_pixel_format")

\* the memory bus completes its transfer
MemCommandComplete ==
    /\ ~dispPanic
    /\ memPending # NoMem
    /\ LET m == command_complete(DispCur)
       IN DispEvent(m, "command_complete")

\* the alarm fires
AlarmFired ==
    /\ ~dispPanic
    /\ alarm > 0
    /\ LET m == fired(DispCur) IN DispEvent(m, "fired")

DispNext ==
    \/ Subscribe /\ UNCHANGED dispOthers
    \/ ScreenSetClient /\ UNCHANGED dispOthers
    \/ SetupSetClient /\ UNCHANGED dispOthers
    \/ ScreenInit /\ UNCHANGED dispOthers
    \/ ScreenFill /\ UNCHANGED dispOthers
    \/ (\E p \in PixelInputs : ScreenWritePixel(p[1], p[2]))
       /\ UNCHANGED dispOthers
    \/ (\E f \in FrameInputs, checked \in BOOLEAN :
            ScreenSetWriteFrame(f[1], f[2], f[3], f[4], checked))
       /\ UNCHANGED dispOthers
    \/ (\E l \in 1..MaxWriteLen : ScreenWrite(l)) /\ UNCHANGED dispOthers
    \/ (\E normal \in BOOLEAN : ScreenSetRotation(normal))
       /\ UNCHANGED dispOthers
    \/ (\E brightness \in 0..1 : ScreenSetBrightness(brightness))
       /\ UNCHANGED dispOthers
    \/ (\E supported \in BOOLEAN : ScreenSetResolution(supported))
       /\ UNCHANGED dispOthers
    \/ (\E supported \in BOOLEAN : ScreenSetPixelFormat(supported))
       /\ UNCHANGED dispOthers
    \/ MemCommandComplete /\ UNCHANGED dispOthers
    \/ AlarmFired /\ UNCHANGED dispOthers

DispSpec == DispInit /\ [][DispNext]_<<dispVars, dispOthers>>

\* ======================================================================
\* Properties, part 3
\* ======================================================================

\* C17: send_sequence with a CommandSequence longer than the sequence
\* buffer returns ENOMEM and mutates nothing: the status is Idle, no
\* element of the sequence buffer is overwritten, sequence_len and
\* position_in_sequence keep their values, and no bus transfer and no
\* alarm is started.
C17_SendSequenceENOMEM ==
    [][dispLast'.ssLen > Len(sequence_buffer) =>
          /\ dispLast'.ssRet = "ENOMEM"
          /\ dispStatus' = StIdle
          /\ sequence_buffer' = sequence_buffer
          /\ sequence_len' = sequence_len
          /\ position_in_sequence' = position_in_sequence
          /\ dispLast'.xfers = <<>>
          /\ dispLast'.alarms = <<>>]_dispVars

C17_Witness ==
    /\ dispLast.ssLen > Len(sequence_buffer)
    /\ dispLast.ssRet = "ENOMEM"
    /\ dispStatus = StIdle

\* the entry points that start a sequence
SequenceCalls == {"fill", "write", "set_write_frame", "init"}

\* C18: fill, write, set_write_frame and init called while the status is
\* not Idle return EBUSY and leave the status, the sequence buffer,
\* sequence_len, position_in_sequence, the shared buffer and the pending
\* transfer and alarm as they were, so that the sequence in flight stays the
\* only one.
C18_BusyCallsRejected ==
    [][dispLast'.kind \in SequenceCalls /\ dispStatus # StIdle =>
          /\ dispLast'.ret = "EBUSY"
          /\ dispLast'.xfers = <<>>
          /\ dispLast'.alarms = <<>>
          /\ UNCHANGED <<dispStatus, sequence_buffer, sequence_len,
                         position_in_sequence, dispBuffer, memPending,
                         alarm, replay>>]_dispVars

C18_Witness ==
    /\ dispLast.kind \in SequenceCalls
    /\ dispLast.ret = "EBUSY"
    /\ dispStatus # StIdle
    /\ replay.active

\* the setup and control entry points
SetupCalls ==
    {"set_rotation", "set_brightness", "set_resolution", "set_pixel_format"}

\* C19: set_rotation, set_brightness, set_resolution and set_pixel_format
\* called while the status is not Idle return EBUSY and change nothing: the
\* status, the current command, the shared buffer and the sequence in
\* flight are untouched and no bus transfer is issued.
C19_SetupCallsRejected ==
    [][dispLast'.kind \in SetupCalls /\ dispStatus # StIdle =>
          /\ dispLast'.ret = "EBUSY"
          /\ dispLast'.xfers = <<>>
          /\ UNCHANGED <<dispStatus, command, sequence_buffer, sequence_len,
                         position_in_sequence, dispBuffer, memPending,
                         alarm, replay>>]_dispVars

\* the indices 0 .. n-1 in order
Indices(n) == [i \in 1..n |-> i - 1]

\* C20: while an accepted sequence is replayed the driver does not panic,
\* waits for a bus completion or for the alarm, and has sent a prefix of
\* the indices 0 .. sequence_len-1 in order; when the replay ends the status
\* is Idle, every index was sent exactly once and exactly one completion
\* notification was issued.
C20_ReplayInOrder ==
    /\ replay.active =>
          /\ ~dispPanic
          /\ memPending # NoMem \/ alarm > 0
          /\ Len(replay.sent) <= sequence_len
          /\ replay.sent = Indices(Len(replay.sent))
    /\ dispLast.done /\ dispLast.replayed =>
          /\ dispStatus = StIdle
          /\ dispLast.sent = Indices(sequence_len)
          /\ Len(dispLast.notes) = 1

\* C21: when the driver leaves a sequence element Repeat(cmd, position, len,
\* repeat) with len > 0 it has sent the opcode once and the parameter block
\* exactly repeat times; every parameter write is issued from the
\* completion of the transfer before it, one per completion, and is taken
\* by the bus.
C21_RepeatCount ==
    /\ (dispLast.elem.set /\ dispLast.elem.el.tag = "Repeat"
         /\ dispLast.elem.el.len > 0) =>
            /\ dispLast.elem.opcodes = 1
            /\ dispLast.elem.writes = dispLast.elem.el.repeat
    /\ (replay.active /\ replay.sent # <<>>
         /\ sequence_buffer[Len(replay.sent)].tag = "Repeat") =>
            \A i \in 1..Len(dispLast.xfers) :
                dispLast.xfers[i].op = "write" =>
                    /\ dispLast.xfers[i].ok
                    /\ dispLast.kind = "command_complete"
                    /\ Len(dispLast.xfers) = 1
                    /\ replay.writes <= sequence_buffer[Len(replay.sent)].repeat

C21_Witness ==
    /\ dispLast.elem.set
    /\ dispLast.elem.el.tag = "Repeat"
    /\ dispLast.elem.el.len > 0
    /\ dispLast.elem.el.repeat > 1
    /\ dispLast.elem.writes = dispLast.elem.el.repeat
    /\ dispLast.done

\* C22: a handler that has sent the last parameters of a command with a
\* delay greater than 0 arms the alarm with that delay (500 for 255) and
\* leaves the driver in Delay without a transfer; with a delay of 0 it arms
\* no alarm and goes on to the next element (or ends the sequence) in the
\* same call; and while the driver waits in Delay for the alarm, no handler
\* other than the alarm's issues a bus transfer.
C22_DelayThenAlarm ==
    [][/\ dispLast'.wait > 0 =>
             /\ dispStatus' = St("Delay", 0, 0, 0)
             /\ alarm' = (IF dispLast'.wait = 255 THEN 500
                          ELSE dispLast'.wait)
             /\ dispLast'.alarms = <<alarm'>>
             /\ dispLast'.xfers = <<>>
       /\ (dispLast'.wait = 0 /\ ~dispPanic') =>
             /\ dispLast'.alarms = <<>>
             /\ dispLast'.done \/ Len(dispLast'.xfers) = 1
       /\ (dispStatus = St("Delay", 0, 0, 0) /\ alarm > 0
           /\ dispLast'.kind # "fired") =>
             dispLast'.xfers = <<>>]_dispVars

\* the notifications of a handler other than the scheduled callback
ClientNotes(notes) == SelectSeq(notes, LAMBDA n : n # "callback")

C24_WriteBufferReturned ==
    /\ dispStatus = StIdle => dispWriteBuffer = "none"
    /\ (dispLast.done /\ dispLast.replayed /\ dispLast.elem.set
         /\ dispLast.elem.el.tag = "Slice") =>
            ClientNotes(dispLast.notes) = <<"write_complete">>
    /\ \A i \in 1..Len(dispLast.notes) :
          dispLast.notes[i] \in {"write_complete", "write_complete_shared"} =>
              /\ dispLast.notes[i] = "write_complete"
              /\ dispLast.done
              /\ dispLast.replayed
              /\ dispLast.elem.set
              /\ dispLast.elem.el.tag = "Slice"

\* ================================================================ part 4
\* fill() as a function of the driver, the shared buffer and the colour
fillOthers == <<adcVars, busVars, dispVars, pressVars, widthVars,
    bmpVars, espVars>>

\* the shared buffers: long enough for one pixel after the offset
FillBufferLens == (FILL_OFFSET + 2)..MaxFillBuffer

\* the colours: a usize, of which fill uses the low sixteen bits
FillColors == {0, 255, 256, 4660, 65535, 65536 + 4660}

\* ST7789H2::new / LS016B8UY::new: the buffer is zeroed static memory
FillInit ==
    /\ AdcParked
    /\ BusParked
    /\ DispParked
    /\ PressParked
    /\ WidthParked
    /\ BmpParked
    /\ EspParked
    /\ fillDriver \in {"ST7789H2", "LS016B8UY"}
    /\ \E n \in FillBufferLens : fillBuffer = [k \in 1..n |-> 0]
    /\ fillColor = 0
    /\ fillSequence = <<>>

\* fill(color) on the Idle driver, up to send_sequence_buffer
FillCall(color) ==
    LET buffer_space == fill_buffer_space(Len(fillBuffer))
        repeat == fill_repeat(fill_bytes(fillDriver), buffer_space)
    IN /\ fillColor' = color
       /\ fillBuffer' = fill_buffer(fillBuffer, color)
       /\ fillSequence' = <<ElDefault("CASET"), ElDefault("RASET"),
                            ElRepeat("WRITE_RAM", FILL_OFFSET, buffer_space,
                                     repeat)>>
       /\ UNCHANGED fillDriver

FillNext ==
    (\E color \in FillColors : FillCall(color)) /\ UNCHANGED fillOthers

FillSpec == FillInit /\ [][FillNext]_<<fillVars, fillOthers>>

\* the largest even number not above n
LargestEven(n) == n - (n % 2)

\* the quotient a / b rounded up
Ceil(a, b) == (a + b - 1) \div b

\* C25: after fill(color) the sequence is [Default(CASET), Default(RASET),
\* Repeat(WRITE_RAM, 9, buffer_space, repeat)] with buffer_space the largest
\* even number not above buffer.len() - 9 and repeat the number of bytes of
\* the screen (width * height * 2) divided by buffer_space, rounded up; and
\* buffer[9 .. 9 + buffer_space) holds the high byte and the low byte of
\* the colour, alternating.
C25_FillSequence ==
    fillSequence # <<>> =>
        LET space == LargestEven(Len(fillBuffer) - 9)
        IN /\ fillSequence =
                  <<ElDefault("CASET"), ElDefault("RASET"),
                    ElRepeat("WRITE_RAM", 9, space,
                             Ceil(ScreenPixels(fillDriver) * 2, space))>>
           /\ \A i \in 0..(space - 1) :
                  fillBuffer[9 + i + 1] =
                      IF i % 2 = 0 THEN (fillColor \div 256) % 256
                      ELSE fillColor % 256

\* C26: set_brightness (display_on / display_off) on an Idle driver that is
\* not powered on returns EOFF, starts no transfer and leaves the status
\* Idle; on an Idle driver that is powered on it returns SUCCESS and sends
\* DISPLAY_ON (brightness > 0) or DISPLAY_OFF (brightness 0).
C26_DisplayOnOff ==
    [][(dispLast'.kind = "set_brightness" /\ dispStatus = StIdle) =>
          IF ~power_on
          THEN /\ dispLast'.ret = "EOFF"
               /\ dispLast'.xfers = <<>>
               /\ dispLast'.alarms = <<>>
               /\ dispStatus' = StIdle
               /\ ~dispPanic'
          ELSE /\ dispLast'.ret = "SUCCESS"
               /\ ~dispPanic'
               /\ command' = (IF dispLast'.args[1] > 0 THEN "DISPLAY_ON"
                              ELSE "DISPLAY_OFF")
               /\ Len(dispLast'.xfers) = 1
               /\ dispLast'.xfers[1].op = "write_addr"
               /\ dispLast'.xfers[1].ok
               /\ dispStatus' = St("SendCommand", 0, 0, 1)]_dispVars

\* the frame <<x, y, width, height>> is not empty and lies within the screen
FrameContained(f) ==
    /\ f[3] > 0
    /\ f[4] > 0
    /\ f[1] + f[3] <= ScreenWidth
    /\ f[2] + f[4] <= ScreenHeight

\* C27: set_write_frame on an Idle driver with a frame that is empty or not
\* contained in the screen, and write_pixel with x or y outside the screen,
\* return EINVAL, start no sequence and leave the status and the shared
\* buffer as they were.
C27_OutOfRangeEINVAL ==
    [][((/\ dispLast'.kind = "set_write_frame"
         /\ dispStatus = StIdle
         /\ ~FrameContained(dispLast'.args))
        \/ (/\ dispLast'.kind = "write_pixel"
            /\ (dispLast'.args[1] >= ScreenWidth
                \/ dispLast'.args[2] >= ScreenHeight))) =>
          /\ dispLast'.ret = "EINVAL"
          /\ dispLast'.xfers = <<>>
          /\ dispLast'.alarms = <<>>
          /\ UNCHANGED <<dispStatus, dispBuffer, sequence_buffer,
                         sequence_len, position_in_sequence, memPending,
                         alarm, replay>>]_dispVars

\* ================================================================ part 5
\* PressureSensor
pressOthers == <<adcVars, busVars, dispVars, fillVars, widthVars,
    bmpVars, espVars>>

PressApps == 1..NumApps

\* #[derive(Default)] struct App
DefaultApp == [callback |-> FALSE, subscribed |-> FALSE]

\* PressureSensor::new
PressInit ==
    /\ AdcParked
    /\ BusParked
    /\ DispParked
    /\ FillParked
    /\ WidthParked
    /\ BmpParked
    /\ EspParked
    /\ busy = FALSE
    /\ apps = [a \in PressApps |-> DefaultApp]
    /\ readPending = FALSE
    /\ pressLast = NoPressCall

\* PressureSensor::configure_callback, from Driver::subscribe; entered is
\* the result of the grant's enter, cb whether the Option<Callback> given
\* is Some
configure_callback(cb, app_id, entered) ==
    IF entered
    THEN [apps |-> [apps EXCEPT ![app_id].callback = cb],
          ret |-> "SUCCESS"]
    ELSE [apps |-> apps, ret |-> "ENOMEM"]

\* Driver::subscribe for PressureSensor
PressSubscribe(subscribe_num, cb, app_id, entered) ==
    LET r == IF subscribe_num = 0
             THEN configure_callback(cb, app_id, entered)
             ELSE [apps |-> apps, ret |-> "ENOSUPPORT"]
    IN /\ apps' = r.apps
       /\ pressLast' = [NoPressCall EXCEPT !.kind = "subscribe",
                                           !.app = app_id,
                                           !.num = subscribe_num,
                                           !.ret = r.ret,
                                           !.wasBusy = busy,
                                           !.wasPending = readPending,
                                           !.entered = entered]
       /\ UNCHANGED <<busy, readPending>>

\* PressureSensor::enqueue_command; driver_ret is what
\* driver.read_pressure() returns
enqueue_command(appid, entered, driver_ret) ==
    IF entered
    THEN IF ~busy
         THEN [apps |-> [apps EXCEPT ![appid].subscribed = TRUE],
               busy |-> TRUE, called |-> TRUE, ret |-> driver_ret]
         ELSE [apps |-> apps, busy |-> busy, called |-> FALSE,
               ret |-> "EBUSY"]
    ELSE [apps |-> apps, busy |-> busy, called |-> FALSE, ret |-> "ENOMEM"]

\* Driver::command for PressureSensor; the driver accepts a read
\* (SUCCESS, a callback will follow) or refuses it
PressCommand(command_num, appid, entered, driver_ret) ==
    LET r == IF command_num = 1
             THEN enqueue_command(appid, entered, driver_ret)
             ELSE [apps |-> apps, busy |-> busy, called |-> FALSE,
                   ret |-> IF command_num = 0 THEN "SUCCESS"
                           ELSE "ENOSUPPORT"]
    IN /\ apps' = r.apps
       /\ busy' = r.busy
       /\ readPending' = (readPending
                          \/ (r.called /\ driver_ret = "SUCCESS"))
       /\ pressLast' = [NoPressCall EXCEPT !.kind = "command",
                                           !.app = appid,
                                           !.num = command_num,
                                           !.ret = r.ret,
                                           !.wasBusy = busy,
                                           !.wasPending = readPending,
                                           !.entered = entered]

\* PressureClient::callback for PressureSensor
PressCallback(temp_val) ==
    /\ readPending
    /\ readPending' = FALSE
    /\ busy' = IF \E a \in PressApps : apps[a].subscribed THEN FALSE
               ELSE busy
    /\ apps' = [a \in PressApps |-> [apps[a] EXCEPT !.subscribed = FALSE]]
    /\ pressLast' = [NoPressCall EXCEPT
                        !.kind = "callback",
                        !.wasBusy = busy,
                        !.wasPending = readPending,
                        !.value = temp_val,
                        !.scheduled = {a \in PressApps :
                                          /\ apps[a].subscribed
                                          /\ apps[a].callback}]

\* what read_pressure() of a driver returns: accepted, or refused
DriverReturns == {"SUCCESS", "FAIL"}

PressNext ==
    \/ (\E n \in 0..1, cb \in BOOLEAN, a \in PressApps, e \in BOOLEAN :
            PressSubscribe(n, cb, a, e)) /\ UNCHANGED pressOthers
    \/ (\E n \in 0..2, a \in PressApps, e \in BOOLEAN, d \in DriverReturns :
            PressCommand(n, a, e, d)) /\ UNCHANGED pressOthers
    \/ (\E v \in 0..MaxPressure : PressCallback(v)) /\ UNCHANGED pressOthers

PressSpec == PressInit /\ [][PressNext]_<<pressVars, pressOthers>>

\* C28: command 1 (with the grant entered) returns EBUSY exactly when a read
\* accepted by the driver awaits its callback; the busy flag is set exactly
\* while such a read is outstanding: cleared by the callback, and not left
\* set when read_pressure() returned an error.
C28_BusyWhileOutstanding ==
    /\ busy <=> readPending
    /\ (pressLast.kind = "command" /\ pressLast.num = 1
        /\ pressLast.entered) =>
           (pressLast.ret = "EBUSY" <=> pressLast.wasPending)
    /\ pressLast.kind = "callback" => ~busy

\* C29: a write or read of SpiBus or I2CBus whose buffer is at least
\* count * width_in_bytes long (for a read of SpiBus: with a filler in the
\* slot that is as long too) does not return ENOMEM: the device is called.
C29_LongEnoughNeverENOMEM ==
    (/\ busKind \in {"spi", "i2c"}
     /\ busLast.kind \in {"write", "read"}
     /\ bufLen[busLast.buf] >= busLast.need
     /\ (busKind = "spi" /\ busLast.kind = "read") =>
            /\ busLast.slot # None
            /\ bufLen[busLast.slot] >= busLast.need) =>
        /\ busLast.ret # "ENOMEM"
        /\ Len(busLast.calls) = 1

\* C30: the length SpiBus and I2CBus hand to the device for an accepted
\* write or read of count items at data width w is
\* count * width_in_bytes(w).
C30_ByteLengthPassed ==
    (/\ busKind \in {"spi", "i2c"}
     /\ busLast.kind \in {"write", "read"}
     /\ busLast.ret = "Ok") =>
        /\ Len(busLast.calls) = 1
        /\ busLast.calls[1].n = busLast.need

\* C31: when SpiBus::read or SpiBus::read_addr returns an error (not a
\* panic), read_write_buffer holds the filler it held before the call.
C31_FillerKeptOnError ==
    (/\ busKind = "spi"
     /\ busLast.kind \in {"read", "read_addr"}
     /\ busLast.ret \notin {"Ok", "panic", "none"}) =>
        read_write_buffer = busLast.slot

\* C32: on a completion with CommandComplete, I2CBus reports to its client
\* the item count of the operation that has just completed, whichever of
\* write, read, write_addr and read_addr it was.
C32_I2cReportsRequestedCount ==
    (busKind = "i2c" /\ busLast.kind = "done") =>
        /\ Len(busLast.delivered) = 1
        /\ busLast.xfer.op \in {"write", "read", "write_read"}
        /\ busLast.delivered[1].len = busLast.xfer.items

\* ================================================================ part 6
\* the width-to-bytes mappings
widthOthers == <<adcVars, busVars, dispVars, fillVars, pressVars,
    bmpVars, espVars>>

\* kernel::hil::bus::BusWidth::width_in_bytes
width_in_bytes(bus_width) ==
    CASE bus_width = "Bits8" -> 1
      [] bus_width \in {"Bits16BE", "Bits16LE"} -> 2
      [] bus_width \in {"Bits32BE", "Bits32LE"} -> 3
      [] bus_width \in {"Bits64BE", "Bits64LE"} -> 4

\* kernel::hil::memory_async::BusWidth
MemoryBusWidths == {"Bits8", "Bits16", "Bits32", "Bits64"}

\* bus_width_in_bytes of capsules/src/memory_async.rs
memory_bus_width_in_bytes(bus_width) ==
    CASE bus_width = "Bits8" -> 1
      [] bus_width = "Bits16" -> 2
      [] bus_width = "Bits32" -> 3
      [] bus_width = "Bits64" -> 4

\* the mapping of a layer
LayerWidthInBytes(layer, bus_width) ==
    CASE layer = "hil" -> width_in_bytes(bus_width)
      [] layer = "bus" -> bus_width_in_bytes(bus_width)
      [] layer = "memory_async" -> memory_bus_width_in_bytes(bus_width)

\* the widths a layer knows
LayerWidths(layer) ==
    IF layer = "memory_async" THEN MemoryBusWidths ELSE BusWidths

WidthInit ==
    /\ AdcParked
    /\ BusParked
    /\ DispParked
    /\ FillParked
    /\ PressParked
    /\ BmpParked
    /\ EspParked
    /\ widthLayer \in {"hil", "bus", "memory_async"}
    /\ widthName \in LayerWidths(widthLayer)
    /\ widthItems \in 0..MaxItems
    /\ widthBytes = -1

\* `len * bytes` as the adapters compute it
WidthApply ==
    /\ widthBytes = -1
    /\ widthBytes' = widthItems * LayerWidthInBytes(widthLayer, widthName)
    /\ UNCHANGED <<widthLayer, widthName, widthItems>>

WidthNext == WidthApply /\ UNCHANGED widthOthers

WidthSpec == WidthInit /\ [][WidthNext]_<<widthVars, widthOthers>>

\* the number of bits a width is named after
BitsNamed(bus_width) ==
    CASE bus_width = "Bits8" -> 8
      [] bus_width \in {"Bits16", "Bits16BE", "Bits16LE"} -> 16
      [] bus_width \in {"Bits32", "Bits32BE", "Bits32LE"} -> 32
      [] bus_width \in {"Bits64", "Bits64BE", "Bits64LE"} -> 64

\* C33: the width-to-bytes mapping of every layer gives the number of bytes
\* of the named bit width (1, 2, 4 and 8 for 8, 16, 32 and 64 bits), so the
\* byte count of len items is len * bits / 8.
C33_WidthInBytes ==
    widthBytes # -1 =>
        widthBytes = widthItems * (BitsNamed(widthName) \div 8)

\* ------------------------------------- I2CBus at the limit of a u8 length
\* The same adapter and the same handlers as in part 2, with the requests
\* that reach the `as u8` casts: item counts and buffers around 255 bytes.

\* item counts whose byte count at 1 or 2 bytes an item is around 255
LargeCounts ==
    {1} \cup ((LargeCount \div 2 - 1)..(LargeCount \div 2))
        \cup ((LargeCount - 2)..LargeCount)

\* boards whose static buffers are around 255 bytes long, or much longer
LargeBufLenMaps ==
    {[b \in Buffers |-> LargeCount - 3 + b],
     [b \in Buffers |-> 4 * LargeCount]}

\* I2CBus::new on a board with large buffers
I2cLenInit ==
    /\ AdcParked
    /\ DispParked
    /\ FillParked
    /\ PressParked
    /\ WidthParked
    /\ BmpParked
    /\ EspParked
    /\ busKind = "i2c"
    /\ bufLen \in LargeBufLenMaps
    /\ held = Buffers
    /\ read_write_buffer = None
    /\ busClient = FALSE
    /\ len = 0
    /\ status = "Idle"
    /\ addr_buffer = TRUE
    /\ xfer = NoXfer
    /\ outstanding = {}
    /\ busPanic = FALSE
    /\ busLast = NoCall

I2cLenNext ==
    \/ BusSetClient /\ UNCHANGED busOthers
    \/ (\E w \in DataWidths, b \in Buffers, n \in LargeCounts,
           ok \in DevOutcomes :
            I2cBusWrite(w, b, n, ok)) /\ UNCHANGED busOthers
    \/ (\E w \in DataWidths, b \in Buffers, n \in LargeCounts,
           ok \in DevOutcomes :
            I2cBusRead(w, b, n, ok)) /\ UNCHANGED busOthers
    \/ (\E w \in DataWidths, b \in Buffers, n \in LargeCounts,
           ok \in DevOutcomes :
            I2cBusReadAddr("Bits8", w, b, n, ok)) /\ UNCHANGED busOthers
    \/ (\E e \in I2cErrors : I2cCommandComplete(e)) /\ UNCHANGED busOthers

I2cLenSpec == I2cLenInit /\ [][I2cLenNext]_<<busVars, busOthers>>

\* C34: a write, read or read_addr of I2CBus whose byte count is 255 or
\* more returns ENOMEM with the buffer and makes no device call, so the
\* device never gets a length cut by the cast to u8.
C34_NoTruncatedLength ==
    (/\ busKind = "i2c"
     /\ busLast.kind \in {"write", "read", "read_addr"}
     /\ busLast.need >= 255) =>
        /\ busLast.ret = "ENOMEM"
        /\ busLast.back = busLast.buf
        /\ busLast.calls = <<>>

\* the states of the reset pulse train of init()
ResetTags == {"Reset2", "Reset3", "Reset4", "Init"}

\* the level do_next_op drives the reset pin to when it leaves a state
ResetLevel(tag) ==
    CASE tag = "Reset2" -> <<"high">>
      [] tag = "Reset3" -> <<"low">>
      [] tag = "Reset4" -> <<"high">>
      [] OTHER -> <<>>

\* C35: during init(), however the bus completion of the NOP command and
\* the alarm firings interleave, the driver does not panic, only a firing
\* alarm advances the reset states (a bus completion leaves the state and
\* the reset pin alone), the alarm toggles the pin high, low, high after
\* the low of Reset1, and the alarm in Init starts INIT_SEQUENCE.
C35_InitInterleavings ==
    (/\ dispLast.kind \in {"fired", "command_complete"}
     /\ dispLast.pre.tag \in ResetTags) =>
        /\ dispLast.ret # "panic"
        /\ dispLast.kind = "command_complete" =>
               /\ dispStatus = dispLast.pre
               /\ dispLast.pins = <<>>
        /\ dispLast.kind = "fired" =>
               /\ dispLast.pins = ResetLevel(dispLast.pre.tag)
               /\ dispLast.pre.tag = "Init" => dispLast.ssRet = "SUCCESS"

\* ================================================================ part 7
\* capsules/src/bmp280.rs
bmpOthers == <<adcVars, busVars, dispVars, fillVars, pressVars, widthVars,
    espVars>>

\* the calibration read-out: the state a completion in a state moves to
\* and the register it reads for it (READDIGP4 reads DIGP4 once more)
DigChain ==
    [Init |-> [reg |-> "DIGT1", next |-> "READDIGT1"],
     READDIGT1 |-> [reg |-> "DIGT2", next |-> "READDIGT2"],
     READDIGT2 |-> [reg |-> "DIGT3", next |-> "READDIGT3"],
     READDIGT3 |-> [reg |-> "DIGP1", next |-> "READDIGP1"],
     READDIGP1 |-> [reg |-> "DIGP2", next |-> "READDIGP2"],
     READDIGP2 |-> [reg |-> "DIGP3", next |-> "READDIGP3"],
     READDIGP3 |-> [reg |-> "DIGP4", next |-> "READDIGP4"],
     READDIGP4 |-> [reg |-> "DIGP4", next |-> "READDIGP5"],
     READDIGP5 |-> [reg |-> "DIGP6", next |-> "READDIGP6"],
     READDIGP6 |-> [reg |-> "DIGP7", next |-> "READDIGP7"],
     READDIGP7 |-> [reg |-> "DIGP8", next |-> "READDIGP8"],
     READDIGP8 |-> [reg |-> "DIGP9", next |-> "READDIGP9"]]

\* enum State
BmpStates ==
    DOMAIN DigChain \cup
        {"READDIGP9", "Reset", "ReadTemperature", "ReadPressure", "Idle",
         "ReadStatus"}

\* handler-local state
BmpCur ==
    [state |-> bmpState, buffer |-> bmpBuffer, xfer |-> bmpXfer,
     read_temp |-> read_temp, read_press |-> read_press, ret |-> "none",
     calls |-> <<>>, callbacks |-> <<>>]

\* self.i2c.write / self.i2c.write_read with the buffer taken out of
\* self.buffer: the driver is the only user of its I2CDevice and the
\* device keeps the buffer until it calls command_complete
BmpI2c(m, op, reg) ==
    [m EXCEPT !.buffer = FALSE, !.xfer = TRUE,
              !.calls = Append(@, [op |-> op, reg |-> reg])]

\* BMP280::read_status
read_status(m) ==
    IF m.buffer
    THEN [BmpI2c(m, "write_read", "STATUS") EXCEPT !.state = "ReadStatus"]
    ELSE m

\* BMP280::reset
bmp_reset(m) ==
    IF m.buffer
    THEN [BmpI2c(m, "write_read", "SOFTRESET") EXCEPT !.state = "Reset"]
    ELSE m

\* BMP280::set_sampling
set_sampling(m) ==
    IF m.buffer
    THEN [BmpI2c([m EXCEPT !.state = "Init"], "write", "CONFIG")
            EXCEPT !.ret = "SUCCESS"]
    ELSE [m EXCEPT !.ret = "ENOMEM"]

\* BMP280::read_dig
read_dig(m, reg, state) ==
    IF m.buffer
    THEN [BmpI2c([m EXCEPT !.state = state], "write_read", reg)
            EXCEPT !.ret = "SUCCESS"]
    ELSE [m EXCEPT !.ret = "ENOMEM"]

\* BMP280::get_sample
get_sample(m, reg, state) ==
    IF m.buffer
    THEN [BmpI2c([m EXCEPT !.state = state], "write_read", reg)
            EXCEPT !.ret = "SUCCESS"]
    ELSE [m EXCEPT !.ret = "ENOMEM"]

\* BMP280::read_temperature
read_temperature(m) ==
    IF m.read_temp THEN [m EXCEPT !.ret = "EBUSY"]
    ELSE IF m.state = "Idle"
         THEN get_sample([m EXCEPT !.read_temp = TRUE], "TEMPDATA",
                         "ReadTemperature")
         ELSE [m EXCEPT !.read_temp = TRUE, !.ret = "SUCCESS"]

\* BMP280::read_pressure
read_pressure(m) ==
    IF m.read_press THEN [m EXCEPT !.ret = "EBUSY"]
    ELSE IF m.state = "Idle"
         THEN get_sample([m EXCEPT !.read_press = TRUE], "TEMPDATA",
                         "ReadTemperature")
         ELSE [m EXCEPT !.read_press = TRUE, !.ret = "SUCCESS"]

\* self.temperature_client.map(|cb| cb.callback(v))
TemperatureCallback(m, v) ==
    IF temperature_client
    THEN [m EXCEPT !.callbacks = Append(@, [to |-> "temperature",
                                            value |-> v])]
    ELSE m

\* self.pressure_client.map(|cb| cb.callback(v))
PressureCallback(m, v) ==
    IF pressure_client
    THEN [m EXCEPT !.callbacks = Append(@, [to |-> "pressure",
                                            value |-> v])]
    ELSE m

\* command_complete, State::ReadTemperature
BmpTemperatureDone(m) ==
    LET b == [m EXCEPT !.buffer = TRUE]
        t == IF b.read_temp
             THEN TemperatureCallback([b EXCEPT !.read_temp = FALSE],
                                      "sample")
             ELSE b
    IN  IF t.read_press
        THEN [get_sample(t, "PRESSUREDATA", "ReadPressure")
                EXCEPT !.ret = "none"]
        ELSE [t EXCEPT !.state = "Idle"]

\* command_complete, State::ReadPressure; var1 == 0 reports usize::MAX
BmpPressureDone(m, var1_zero) ==
    PressureCallback([m EXCEPT !.read_press = FALSE, !.state = "Idle"],
                     IF var1_zero THEN "MAX" ELSE "sample")

\* command_complete with an error other than CommandComplete
BmpFailed(m) ==
    LET b == [m EXCEPT !.buffer = TRUE]
        t == IF b.read_temp
             THEN TemperatureCallback([b EXCEPT !.read_temp = FALSE], "MAX")
             ELSE b
    IN  IF t.read_press
        THEN PressureCallback([t EXCEPT !.read_press = FALSE], "MAX")
        ELSE t

\* I2CClient::command_complete for BMP280; the buffer arrives as argument
bmp_command_complete(m, error, var1_zero) ==
    IF error = "CommandComplete"
    THEN CASE m.state \in DOMAIN DigChain ->
                  [read_dig([m EXCEPT !.buffer = TRUE],
                            DigChain[m.state].reg, DigChain[m.state].next)
                     EXCEPT !.ret = "none"]
           [] m.state = "ReadStatus" -> [m EXCEPT !.state = "Idle"]
           [] m.state = "ReadTemperature" -> BmpTemperatureDone(m)
           [] m.state = "ReadPressure" -> BmpPressureDone(m, var1_zero)
           [] m.state \in {"READDIGP9", "Reset"} ->
                  [m EXCEPT !.buffer = TRUE, !.state = "Idle"]
           [] OTHER -> m
    ELSE BmpFailed(m)

\* the callbacks of a handler made to one client
CallbacksTo(m, to) == SelectSeq(m.callbacks, LAMBDA c : c.to = to)

BmpCommit(m, kind, error) ==
    /\ bmpState' = m.state
    /\ bmpBuffer' = m.buffer
    /\ bmpXfer' = m.xfer
    /\ read_temp' = m.read_temp
    /\ read_press' = m.read_press
    /\ tempOwed' = IF /\ kind = "read_temperature" /\ m.ret = "SUCCESS"
                      /\ temperature_client
                   THEN TRUE
                   ELSE tempOwed /\ CallbacksTo(m, "temperature") = <<>>
    /\ pressOwed' = IF /\ kind = "read_pressure" /\ m.ret = "SUCCESS"
                       /\ pressure_client
                    THEN TRUE
                    ELSE pressOwed /\ CallbacksTo(m, "pressure") = <<>>
    /\ bmpLast' = [kind |-> kind, ret |-> m.ret, pre |-> bmpState,
                   error |-> error, calls |-> m.calls,
                   callbacks |-> m.callbacks, owedT |-> tempOwed,
                   owedP |-> pressOwed]
    /\ UNCHANGED <<temperature_client, pressure_client>>

\* BMP280::new; the board component hands the driver its static buffer
BmpInit ==
    /\ AdcParked
    /\ BusParked
    /\ DispParked
    /\ FillParked
    /\ PressParked
    /\ WidthParked
    /\ EspParked
    /\ bmpState = "Idle"
    /\ bmpBuffer = TRUE
    /\ bmpXfer = FALSE
    /\ read_temp = FALSE
    /\ read_press = FALSE
    /\ temperature_client = FALSE
    /\ pressure_client = FALSE
    /\ tempOwed = FALSE
    /\ pressOwed = FALSE
    /\ bmpLast = NoBmpCall

\* TemperatureDriver::set_client
BmpSetTemperatureClient ==
    /\ ~temperature_client
    /\ temperature_client' = TRUE
    /\ bmpLast' = [NoBmpCall EXCEPT !.kind = "set_client", !.pre = bmpState]
    /\ UNCHANGED <<bmpState, bmpBuffer, bmpXfer, read_temp, read_press,
                   pressure_client, tempOwed, pressOwed>>

\* PressureDriver::set_client
BmpSetPressureClient ==
    /\ ~pressure_client
    /\ pressure_client' = TRUE
    /\ bmpLast' = [NoBmpCall EXCEPT !.kind = "set_client", !.pre = bmpState]
    /\ UNCHANGED <<bmpState, bmpBuffer, bmpXfer, read_temp, read_press,
                   temperature_client, tempOwed, pressOwed>>

BmpReadStatus == BmpCommit(read_status(BmpCur), "read_status", "none")

BmpReset == BmpCommit(bmp_reset(BmpCur), "reset", "none")

BmpSetSampling == BmpCommit(set_sampling(BmpCur), "set_sampling", "none")

BmpReadTemperature ==
    BmpCommit(read_temperature(BmpCur), "read_temperature", "none")

BmpReadPressure ==
    BmpCommit(read_pressure(BmpCur), "read_pressure", "none")

\* the I2C device finishes the transfer and hands the buffer back
BmpCommandComplete(error, var1_zero) ==
    /\ bmpXfer
    /\ BmpCommit(bmp_command_complete([BmpCur EXCEPT !.xfer = FALSE], error,
                                      var1_zero),
                 "command_complete", error)

BmpNext ==
    \/ BmpSetTemperatureClient /\ UNCHANGED bmpOthers
    \/ BmpSetPressureClient /\ UNCHANGED bmpOthers
    \/ BmpReadStatus /\ UNCHANGED bmpOthers
    \/ BmpReset /\ UNCHANGED bmpOthers
    \/ BmpSetSampling /\ UNCHANGED bmpOthers
    \/ BmpReadTemperature /\ UNCHANGED bmpOthers
    \/ BmpReadPressure /\ UNCHANGED bmpOthers
    \/ (\E e \in I2cErrors, z \in BOOLEAN : BmpCommandComplete(e, z))
           /\ UNCHANGED bmpOthers

BmpSpec == BmpInit /\ [][BmpNext]_<<bmpVars, bmpOthers>>

\* C36: after command_complete returns, whatever the driver state and the
\* I2C result, the buffer is in self.buffer or with a newly issued I2C
\* transfer; and a read_temperature or read_pressure never fails with
\* ENOMEM.
C36_BufferNeverDropped ==
    /\ bmpLast.kind = "command_complete" => (bmpBuffer \/ bmpXfer)
    /\ bmpLast.kind \in {"read_temperature", "read_pressure"} =>
           bmpLast.ret # "ENOMEM"

\* every I2C transfer completes, with some result
BmpCompletes ==
    (\E e \in I2cErrors, z \in BOOLEAN : BmpCommandComplete(e, z))
        /\ UNCHANGED bmpOthers

BmpLiveSpec == BmpSpec /\ WF_<<bmpVars, bmpOthers>>(BmpCompletes)

\* C37: if every I2C transfer completes, every read_temperature and every
\* read_pressure that returned SUCCESS to a client, also one accepted while
\* the driver was not Idle, is followed by its callback, and no handler
\* calls a client twice.
C37_ResponseLiveness ==
    /\ tempOwed ~> ~tempOwed
    /\ pressOwed ~> ~pressOwed
    /\ [](/\ Len(CallbacksTo(bmpLast, "temperature")) <= 1
          /\ Len(CallbacksTo(bmpLast, "pressure")) <= 1)

\* the one callback with usize::MAX to a client
MaxCallback(to) == <<[to |-> to, value |-> "MAX"]>>

\* C38: when an I2C transfer completes with an error, every client with an
\* outstanding request gets usize::MAX exactly once, the buffer is back in
\* the driver and the state is Idle again, so that the next request starts
\* a transfer.
C38_ErrorRecovery ==
    (bmpLast.kind = "command_complete"
        /\ bmpLast.error # "CommandComplete") =>
            /\ bmpLast.owedT =>
                   CallbacksTo(bmpLast, "temperature")
                       = MaxCallback("temperature")
            /\ bmpLast.owedP =>
                   CallbacksTo(bmpLast, "pressure") = MaxCallback("pressure")
            /\ bmpBuffer
            /\ bmpState = "Idle"

\* ================================================================ part 8
\* capsules/src/esp_serial.rs, the write path
espOthers == <<adcVars, busVars, dispVars, fillVars, pressVars, widthVars,
               bmpVars>>

EspApps == 1..NumEspApps

\* the lengths a process passes to the write command
WriteLens == 0..(MaxSliceLen + 1)

\* App::default(); slice is the length of write_buffer, -1 for None.  Byte
\* i of every slice is the number i.
NoSlice == 0 - 1

DefaultEspApp ==
    [write_callback |-> FALSE, slice |-> NoSlice, write_len |-> 0,
     write_remaining |-> 0, pending_write |-> FALSE]

\* cmp::min
Min(x, y) == IF x < y THEN x ELSE y

\* handler-local state
EspCur ==
    [apps |-> espApps, tip |-> tx_in_progress, txb |-> tx_buffer,
     uart |-> uartTx, ret |-> "none", res |-> "none", chunks |-> <<>>,
     callbacks |-> <<>>, busy |-> FALSE]

\* the first transaction_len bytes of the kernel buffer after the copy
\* loop: the loop copies slice[0..min(write_remaining, slice.len())] to the
\* start of the buffer, the rest is what the buffer held (0)
EspChunk(remaining, slice) ==
    LET copied == Min(Min(remaining, slice), MaxTxBuffer)
        transaction_len == Min(remaining, MaxTxBuffer)
    IN  [i \in 1..transaction_len |-> IF i <= copied THEN i ELSE 0]

\* EspSerial::send
send(m, app_id, slice) ==
    LET app == m.apps[app_id]
        s == IF m.tip = None
             THEN IF m.txb
                  THEN LET c == [app |-> app_id,
                                 data |-> EspChunk(app.write_remaining,
                                                   slice)]
                       IN [m EXCEPT
                             !.tip = app_id, !.txb = FALSE,
                             !.apps[app_id].write_remaining =
                                 IF @ > MaxTxBuffer THEN @ - MaxTxBuffer
                                 ELSE 0,
                             !.busy = @ \/ m.uart # NoTx,
                             !.uart = c,
                             !.chunks = Append(@, c)]
                  ELSE [m EXCEPT !.tip = app_id]
             ELSE [m EXCEPT !.apps[app_id].pending_write = TRUE]
    IN  [s EXCEPT !.apps[app_id].slice = slice]

\* EspSerial::send_new
send_new(m, app_id, l) ==
    LET slice == m.apps[app_id].slice
    IN  IF slice # NoSlice
        THEN [send([m EXCEPT !.apps[app_id].slice = NoSlice,
                             !.apps[app_id].write_len = Min(l, slice),
                             !.apps[app_id].write_remaining = Min(l, slice)],
                   app_id, slice)
                EXCEPT !.ret = "SUCCESS"]
        ELSE [m EXCEPT !.ret = "EBUSY"]

\* EspSerial::send_continue; res is Ok(true), Ok(false) or the error
send_continue(m, app_id) ==
    IF m.apps[app_id].write_remaining > 0
    THEN LET slice == m.apps[app_id].slice
         IN  IF slice # NoSlice
             THEN [send([m EXCEPT !.apps[app_id].slice = NoSlice], app_id,
                        slice)
                     EXCEPT !.res = "more"]
             ELSE [m EXCEPT !.res = "ERESERVE"]
    ELSE [m EXCEPT !.res = "done"]

\* app.write_callback.map(|mut cb| cb.schedule(r0, r1, 0)); set tells
\* whether the process has a callback, that is whether it is scheduled
EspSchedule(m, app_id, r0, r1) ==
    [m EXCEPT !.callbacks =
                  Append(@, [app |-> app_id, r0 |-> r0, r1 |-> r1,
                             set |-> m.apps[app_id].write_callback])]

\* the Err arm of both matches of transmitted_buffer
EspReserveFailed(m, app_id) ==
    EspSchedule([m EXCEPT !.apps[app_id].write_len = 0,
                          !.apps[app_id].write_remaining = 0,
                          !.apps[app_id].pending_write = FALSE],
                app_id, "ERESERVE", 0)

\* transmitted_buffer: the process whose transmission has ended
EspCurrentDone(m, app_id) ==
    LET c == send_continue(m, app_id)
    IN  CASE c.res = "more" -> c
          [] c.res = "done" ->
                 EspSchedule([c EXCEPT !.apps[app_id].write_len = 0],
                             app_id, "SUCCESS", c.apps[app_id].write_len)
          [] OTHER -> EspReserveFailed(c, app_id)

\* transmitted_buffer: `for cntr in self.apps.iter()`, from process i on
RECURSIVE EspStartPending(_, _)
EspStartPending(m, i) ==
    IF i > NumEspApps THEN m
    ELSE IF m.apps[i].pending_write
         THEN LET c == send_continue(
                           [m EXCEPT !.apps[i].pending_write = FALSE], i)
              IN  CASE c.res = "more" -> c
                    [] c.res = "done" -> EspStartPending(c, i + 1)
                    [] OTHER -> EspStartPending(EspReserveFailed(c, i),
                                                i + 1)
         ELSE EspStartPending(m, i + 1)

\* TransmitClient::transmitted_buffer
transmitted_buffer(m) ==
    LET t == [m EXCEPT !.txb = TRUE, !.tip = None]
        c == IF m.tip # None THEN EspCurrentDone(t, m.tip) ELSE t
    IN  IF c.tip = None THEN EspStartPending(c, 1) ELSE c

\* the bytes of the chunks of a handler that belong to a process
RECURSIVE ChunkBytes(_, _)
ChunkBytes(chunks, app_id) ==
    IF chunks = <<>> THEN <<>>
    ELSE (IF Head(chunks).app = app_id THEN Head(chunks).data ELSE <<>>)
             \o ChunkBytes(Tail(chunks), app_id)

\* the callbacks of a handler scheduled for a process
EspCallbacksTo(cbs, app_id) == SelectSeq(cbs, LAMBDA c : c.app = app_id)

EspCommit(m, kind, app_id) ==
    LET accepted == kind = "command" /\ m.ret = "SUCCESS"
    IN
    /\ espApps' = m.apps
    /\ tx_in_progress' = m.tip
    /\ tx_buffer' = m.txb
    /\ uartTx' = m.uart
    /\ espWant' = IF accepted
                  THEN [espWant EXCEPT ![app_id] = m.apps[app_id].write_len]
                  ELSE espWant
    /\ espSent' = [a \in EspApps |->
                      IF accepted /\ a = app_id
                      THEN ChunkBytes(m.chunks, a)
                      ELSE espSent[a] \o ChunkBytes(m.chunks, a)]
    /\ espOwed' = [a \in EspApps |->
                      LET n == espOwed[a]
                                   - Len(EspCallbacksTo(m.callbacks, a))
                                   + (IF accepted /\ a = app_id
                                      THEN 1 ELSE 0)
                      IN IF n < 0 THEN 0 ELSE n]
    /\ espLast' = [kind |-> kind, app |-> app_id, ret |-> m.ret,
                   chunks |-> m.chunks, callbacks |-> m.callbacks,
                   owed |-> espOwed, busy |-> m.busy]

\* EspSerial::new; a process has App::default() in its grant
EspInit ==
    /\ AdcParked
    /\ BusParked
    /\ DispParked
    /\ FillParked
    /\ PressParked
    /\ WidthParked
    /\ BmpParked
    /\ espApps = [a \in EspApps |-> DefaultEspApp]
    /\ tx_in_progress = None
    /\ tx_buffer = TRUE
    /\ uartTx = NoTx
    /\ espWant = [a \in EspApps |-> 0]
    /\ espSent = [a \in EspApps |-> <<>>]
    /\ espOwed = [a \in EspApps |-> 0]
    /\ espLast = [NoEspCall EXCEPT !.owed = [a \in EspApps |-> 0]]

\* Driver::allow(appid, 1, Some(slice))
EspAllow(app_id) ==
    EspCommit([EspCur EXCEPT !.apps[app_id].slice = MaxSliceLen,
                             !.ret = "SUCCESS"],
              "allow", app_id)

\* Driver::subscribe(1, Some(callback), app_id)
EspSubscribe(app_id) ==
    /\ ~espApps[app_id].write_callback
    /\ EspCommit([EspCur EXCEPT !.apps[app_id].write_callback = TRUE,
                                !.ret = "SUCCESS"],
                 "subscribe", app_id)

\* Driver::command(2, len, _, appid)
EspCommand(app_id, l) ==
    /\ espOwed[app_id] < MaxOwed
    /\ EspCommit(send_new([EspCur EXCEPT !.apps[app_id].write_len = l],
                          app_id, l),
                 "command", app_id)

\* the UART has sent the buffer and calls transmitted_buffer
EspTransmitted ==
    /\ uartTx # NoTx
    /\ EspCommit(transmitted_buffer([EspCur EXCEPT !.uart = NoTx]),
                 "transmitted_buffer", uartTx.app)

EspNext ==
    \/ (\E a \in EspApps : EspAllow(a)) /\ UNCHANGED espOthers
    \/ (\E a \in EspApps : EspSubscribe(a)) /\ UNCHANGED espOthers
    \/ (\E a \in EspApps, l \in WriteLens : EspCommand(a, l))
           /\ UNCHANGED espOthers
    \/ EspTransmitted /\ UNCHANGED espOthers

EspSpec == EspInit /\ [][EspNext]_<<espVars, espOthers>>

\* nothing is in flight and no process waits for the UART
EspQuiet == tx_in_progress = None /\ uartTx = NoTx

\* C39: every write that send_new accepts gets its write callback exactly
\* once, after all min(len, slice.len()) bytes were handed to the UART:
\* a callback answers an accepted write and comes when the bytes are out;
\* once nothing is in flight no accepted write is left without its
\* callback (deferred, zero-length and repeated writes included); and at
\* most one UART transmission is outstanding.
C39_WriteCompletion ==
    /\ \A a \in EspApps :
          LET cbs == EspCallbacksTo(espLast.callbacks, a)
          IN  /\ Len(cbs) <= 1
              /\ Len(cbs) = 1 =>
                     /\ espLast.owed[a] >= 1
                     /\ Len(espSent[a]) = espWant[a]
    /\ EspQuiet => \A a \in EspApps : espOwed[a] = 0
    /\ ~espLast.busy
    /\ Len(espLast.chunks) <= 1
    /\ uartTx # NoTx => ~tx_buffer

\* the first n bytes of a slice
FirstBytes(n) == [i \in 1..n |-> i]

\* C40: when a write is longer than the kernel tx buffer, the chunks handed
\* to the UART, put together in order, are the first write_len bytes of the
\* slice of the process: every byte once and in order.  Checked when the
\* completion of the only outstanding write of the process is signalled.
C40_ChunksInOrder ==
    \A a \in EspApps :
        (/\ espLast.kind = "transmitted_buffer"
         /\ EspCallbacksTo(espLast.callbacks, a) # <<>>
         /\ espLast.owed[a] = 1
         /\ espWant[a] > MaxTxBuffer) =>
            espSent[a] = FirstBytes(espWant[a])

====
